---- MODULE Spec2Model ----
(***************************************************************************)
(* Model of the heuristic field-classification, normalization and profit   *)
(* calculation engine (utils/excelParser.ts and components/ProductModal).  *)
(*                                                                         *)
(* Representation.                                                         *)
(*  - A JavaScript string is a sequence of one-character strings.          *)
(*  - A JavaScript number is an exact rational [n, d] in lowest terms with *)
(*    d > 0; NaN is [n |-> 0, d |-> 0] and +-Infinity is [n |-> +-1,       *)
(*    d |-> 0].  IEEE-754 rounding noise is not modelled: arithmetic on    *)
(*    finite numbers is exact, and an operation on a non-finite operand    *)
(*    yields NaN.                                                          *)
(*  - A scalar cell value (string | number | boolean | null | undefined)   *)
(*    is a record [t, s, x, b] tagged by t.                                *)
(*  - An optional string (string | null) is a record [some, v].            *)
(***************************************************************************)
EXTENDS Integers, Sequences, FiniteSets, TLC

VARIABLES
    headers,      \* the sheet's ordered header list (findImageKey argument)
    rowData,      \* the inspected row: header -> scalar
    localImageMap, \* the localImageMap prop: absent, or the Map's entries in
                  \* insertion order
    value,        \* the scalar handed to a normalizer
    inputPrice,   \* ProductModal calculator state (strings)
    inputCost,
    inputWeight,
    calcResult,   \* calculateProfit() of the current render
    op,           \* the engine operation that ran last on the current inputs
    ret,          \* what it returned
    returned,     \* one earlier engine call, remembered with its input and
                  \* its output
    files,        \* the FileList of the last folder upload
    nextUrl,      \* how many object URLs URL.createObjectURL has handed out
    isLoading,    \* FileUpload state
    error,        \* FileUpload state: "null" or the message shown
    parses,       \* the processFile calls made, each at its await or done
    demoTimer,    \* the setTimeout of loadDemoData is pending
    sheets        \* App state: none, or the sheets handed to onDataLoaded

\* ProductGallery's upload state
gallery == <<files, nextUrl>>

\* FileUpload's state, with App's
upload == <<isLoading, error, parses, demoTimer, sheets>>

\* the state of the components around the engine
components == <<gallery, upload>>

\* the state that the engine operations and the calculator leave alone when
\* they run on their own
elsewhere == <<returned, components>>

vars == <<headers, rowData, localImageMap, value, inputPrice, inputCost, inputWeight,
          calcResult, op, ret, elsewhere>>

-----------------------------------------------------------------------------
(* Characters and strings                                                  *)

Digits == <<"0", "1", "2", "3", "4", "5", "6", "7", "8", "9">>

Upper == <<"A", "B", "C", "D", "E", "F", "G", "H", "I", "J", "K", "L", "M",
           "N", "O", "P", "Q", "R", "S", "T", "U", "V", "W", "X", "Y", "Z">>

Lower == <<"a", "b", "c", "d", "e", "f", "g", "h", "i", "j", "k", "l", "m",
           "n", "o", "p", "q", "r", "s", "t", "u", "v", "w", "x", "y", "z">>

\* Characters outside ASCII, each one UTF-16 code unit of the source text,
\* named by code point (toLowerCase leaves all of them unchanged).
uc == [ gong    |-> "U+516C",   \* gong  (kilo-, in the unit written U+516C U+65A4)
        jin     |-> "U+65A4",   \* jin   (the 500 g unit)
        tu      |-> "U+56FE",   \* tu    (picture)
        pian    |-> "U+7247",   \* pian
        lian    |-> "U+94FE",   \* lian  (link, first character)
        jie     |-> "U+63A5",   \* jie   (link, second character)
        di      |-> "U+5730",   \* di    (address, first character)
        zhi     |-> "U+5740",   \* zhi   (address, second character)
        zhu     |-> "U+4E3B",   \* zhu   (main)
        chan    |-> "U+4EA7",   \* chan  (product, first character)
        pin     |-> "U+54C1",   \* pin   (product, second character)
        shang   |-> "U+5546",   \* shang (goods)
        bao     |-> "U+5B9D",   \* bao
        bei     |-> "U+8D1D",   \* bei
        kuan    |-> "U+6B3E",   \* kuan  (style, first character)
        shi     |-> "U+5F0F",   \* shi   (style, second character)
        xiang   |-> "U+76F8",   \* xiang (photo, as in U+76F8 U+7247)
        feng    |-> "U+5C01",   \* feng  (cover, first character)
        mian    |-> "U+9762",   \* mian  (cover, second character)
        zhan    |-> "U+5C55",   \* zhan  (display, first character)
        shi4    |-> "U+793A",   \* shi   (display, second character)
        zhao    |-> "U+7167",   \* zhao  (photograph)
        wai     |-> "U+5916",   \* wai   (appearance, first character)
        guan    |-> "U+89C2",   \* guan  (appearance, second character)
        yu      |-> "U+9884",   \* yu    (preview, first character)
        lan     |-> "U+89C8",   \* lan   (preview, second character)
        yan     |-> "U+989C",   \* yan   (colour, first character)
        se      |-> "U+8272",   \* se    (colour, second character)
        hong    |-> "U+7EA2",   \* hong  (red)
        yen     |-> "U+00A5",   \* yen / yuan sign
        fwyen   |-> "U+FFE5",   \* full-width yen sign
        euro    |-> "U+20AC",   \* euro sign
        pound   |-> "U+00A3",   \* pound sign
        ming    |-> "U+540D",   \* ming  (name)
        cheng   |-> "U+79F0",   \* cheng (name, second character)
        biao    |-> "U+6807",   \* biao  (title, first character; mark)
        ti      |-> "U+9898",   \* ti    (title, second character)
        xing    |-> "U+578B",   \* xing  (model, first character)
        hao     |-> "U+53F7",   \* hao   (number)
        zi4     |-> "U+5B57",   \* zi    (name, as in U+540D U+5B57)
        huo     |-> "U+8D27",   \* huo   (goods, as in U+8D27 U+53F7)
        pai     |-> "U+724C",   \* pai   (brand, second character)
        chang   |-> "U+5382",   \* chang (factory)
        jia     |-> "U+5BB6",   \* jia   (maker, second character)
        zi      |-> "U+5B50",   \* zi    (brand, as in U+724C U+5B50)
        fen     |-> "U+5206",   \* fen   (category, first character)
        lei     |-> "U+7C7B",   \* lei   (category, second character)
        xi      |-> "U+7CFB",   \* xi    (series, first character)
        lie     |-> "U+5217",   \* lie   (series, second character)
        jia4    |-> "U+4EF7",   \* jia   (price, first character)
        ge      |-> "U+683C",   \* ge    (price, second character)
        cheng2  |-> "U+6210",   \* cheng (cost, first character)
        ben     |-> "U+672C",   \* ben   (cost, second character)
        zhong   |-> "U+91CD",   \* zhong (weight, first character)
        liang   |-> "U+91CF",   \* liang (weight, second character)
        ling    |-> "U+96F6",   \* ling  (retail, first character)
        shou    |-> "U+552E",   \* shou  (retail, second character)
        ping    |-> "U+74F6",   \* ping  (bottle)
        kong    |-> "U+63A7" ]  \* kong  (controlled, as in controlled price)

Range(f) == {f[i] : i \in DOMAIN f}

Max(S) == CHOOSE m \in S : \A x \in S : x <= m

Min(S) == CHOOSE m \in S : \A x \in S : m <= x

\* `const x = e; ...`: e is evaluated once and its value handed to the rest.
\* (TLC hands arguments and LET definitions on unevaluated and evaluates them
\* again at every use; a quantifier binds a value.)
Let(e, Rest(_)) == CHOOSE r \in { Rest(x) : x \in {e} } : TRUE

DigitChars == Range(Digits)

DigitVal(c) == (CHOOSE i \in DOMAIN Digits : Digits[i] = c) - 1

\* the whitespace String.prototype.trim and \s strip, among the characters used
WhiteSpace == {" ", "\n", "\r", "\t"}

LowerChar(c) ==
    IF c \in Range(Upper)
    THEN Lower[CHOOSE i \in DOMAIN Upper : Upper[i] = c]
    ELSE c

RECURSIVE toLowerCase(_)
toLowerCase(s0) ==
    Let(s0, LAMBDA s :
        IF s = <<>> THEN <<>>
        ELSE <<LowerChar(Head(s))>> \o toLowerCase(Tail(s)))

\* the longest prefix of s whose characters are all in cls
RECURSIVE TakeWhileIn(_, _)
TakeWhileIn(s0, cls) ==
    Let(s0, LAMBDA s :
        IF s # <<>> /\ Head(s) \in cls
        THEN <<Head(s)>> \o TakeWhileIn(Tail(s), cls)
        ELSE <<>>)

\* the longest prefix of s whose characters are all outside cls
RECURSIVE TakeWhileNotIn(_, _)
TakeWhileNotIn(s0, cls) ==
    Let(s0, LAMBDA s :
        IF s # <<>> /\ Head(s) \notin cls
        THEN <<Head(s)>> \o TakeWhileNotIn(Tail(s), cls)
        ELSE <<>>)

\* s without its longest prefix of characters in cls
RECURSIVE DropWhileIn(_, _)
DropWhileIn(s0, cls) ==
    Let(s0, LAMBDA s :
        IF s # <<>> /\ Head(s) \in cls THEN DropWhileIn(Tail(s), cls) ELSE s)

\* s without its longest suffix of characters in cls
RECURSIVE DropEndWhileIn(_, _)
DropEndWhileIn(s0, cls) ==
    Let(s0, LAMBDA s :
        IF s # <<>> /\ s[Len(s)] \in cls
        THEN DropEndWhileIn(SubSeq(s, 1, Len(s) - 1), cls)
        ELSE s)

\* String.prototype.trim
trim(s) == DropEndWhileIn(DropWhileIn(s, WhiteSpace), WhiteSpace)

\* String.prototype.includes
includes(s0, sub) ==
    Let(s0, LAMBDA s :
        \E i \in 0..(Len(s) - Len(sub)) : SubSeq(s, i + 1, i + Len(sub)) = sub)

startsWith(s0, pre) ==
    Let(s0, LAMBDA s : Len(pre) <= Len(s) /\ SubSeq(s, 1, Len(pre)) = pre)

endsWith(s0, suf) ==
    Let(s0, LAMBDA s :
        Len(suf) <= Len(s) /\ SubSeq(s, Len(s) - Len(suf) + 1, Len(s)) = suf)

\* the characters of s that are in cls, in order
KeepIn(s, cls) == SelectSeq(s, LAMBDA c : c \in cls)

-----------------------------------------------------------------------------
(* Numbers                                                                 *)

Abs(i) == IF i < 0 THEN -i ELSE i

RECURSIVE GCD(_, _)
GCD(a, b) == IF b = 0 THEN a ELSE GCD(b, a % b)

NaN == [n |-> 0, d |-> 0]

isNaN(x) == x.d = 0 /\ x.n = 0

isFinite(x) == x.d # 0

\* the rational n/d (d > 0) in lowest terms
Num(n0, d0) ==
    Let(<<n0, d0>>, LAMBDA q :
        Let(GCD(Abs(q[1]), q[2]), LAMBDA g :
            [n |-> q[1] \div g, d |-> q[2] \div g]))

Whole(i) == [n |-> i, d |-> 1]

Zero == Whole(0)

Add(x0, y0) ==
    Let(<<x0, y0>>, LAMBDA q :
        IF ~isFinite(q[1]) \/ ~isFinite(q[2]) THEN NaN
        ELSE Num(q[1].n * q[2].d + q[2].n * q[1].d, q[1].d * q[2].d))

Neg(x0) ==
    Let(x0, LAMBDA x : IF ~isFinite(x) THEN NaN ELSE [n |-> -x.n, d |-> x.d])

Sub(x, y) == Add(x, Neg(y))

Mul(x0, y0) ==
    Let(<<x0, y0>>, LAMBDA q :
        IF ~isFinite(q[1]) \/ ~isFinite(q[2]) THEN NaN
        ELSE Num(q[1].n * q[2].n, q[1].d * q[2].d))

\* x / y; a division by zero yields NaN (0/0) or an infinity
Div(x0, y0) ==
    Let(<<x0, y0>>, LAMBDA q :
        IF ~isFinite(q[1]) \/ ~isFinite(q[2]) THEN NaN
        ELSE IF q[2].n = 0
             THEN [n |-> IF q[1].n > 0 THEN 1 ELSE IF q[1].n < 0 THEN -1 ELSE 0,
                   d |-> 0]
        ELSE IF q[2].n > 0 THEN Num(q[1].n * q[2].d, q[1].d * q[2].n)
        ELSE Num(-(q[1].n * q[2].d), q[1].d * (-q[2].n)))

\* comparisons with a non-finite operand are false (no infinity is ever
\* compared: every division of the engine is guarded)
Lt(x0, y0) ==
    Let(<<x0, y0>>, LAMBDA q :
        isFinite(q[1]) /\ isFinite(q[2]) /\ q[1].n * q[2].d < q[2].n * q[1].d)

Gt(x, y) == Lt(y, x)

Le(x0, y0) ==
    Let(<<x0, y0>>, LAMBDA q :
        isFinite(q[1]) /\ isFinite(q[2]) /\ q[1].n * q[2].d <= q[2].n * q[1].d)

RECURSIVE Pow10(_)
Pow10(k) == IF k = 0 THEN 1 ELSE 10 * Pow10(k - 1)

RECURSIVE DigitsVal(_)
DigitsVal(s0) ==
    Let(s0, LAMBDA s :
        IF s = <<>> THEN 0
        ELSE 10 * DigitsVal(SubSeq(s, 1, Len(s) - 1)) + DigitVal(s[Len(s)]))

\* parseFloat: skips leading white space, then reads the longest prefix of
\* the form [+-]? digits* (. digits*)? holding at least one digit; NaN when
\* there is none.  (Exponents and the literal Infinity are not read: no
\* input of the model holds them.)
parseFloat(s) ==
    Let(DropWhileIn(s, WhiteSpace), LAMBDA t :
    Let(IF t # <<>> /\ Head(t) \in {"-", "+"} THEN Tail(t) ELSE t, LAMBDA u :
    Let(TakeWhileIn(u, DigitChars), LAMBDA ip :
    Let(SubSeq(u, Len(ip) + 1, Len(u)), LAMBDA r :
    Let(IF r # <<>> /\ Head(r) = "." THEN TakeWhileIn(Tail(r), DigitChars) ELSE <<>>,
        LAMBDA fp :
    Let(Num(DigitsVal(ip) * Pow10(Len(fp)) + DigitsVal(fp), Pow10(Len(fp))),
        LAMBDA mag :
        IF Len(ip) + Len(fp) = 0 THEN NaN
        ELSE IF t # <<>> /\ Head(t) = "-" THEN Neg(mag) ELSE mag))))))

RECURSIVE NatToString(_)
NatToString(i0) ==
    Let(i0, LAMBDA i :
        IF i < 10 THEN <<Digits[i + 1]>>
        ELSE NatToString(i \div 10) \o <<Digits[(i % 10) + 1]>>)

\* the decimal expansion of r/d (r < d), at most k digits
RECURSIVE FracDigits(_, _, _)
FracDigits(r0, d, k) ==
    Let(r0, LAMBDA r :
        IF r = 0 \/ k = 0 THEN <<>>
        ELSE <<Digits[((r * 10) \div d) + 1]>>
             \o FracDigits((r * 10) % d, d, k - 1))

\* String(number); toString keeps at most 17 significant digits
NumberToString(x0) ==
    Let(x0, LAMBDA x :
        IF isNaN(x) THEN <<"N", "a", "N">>
        ELSE IF ~isFinite(x)
             THEN (IF x.n < 0 THEN <<"-">> ELSE <<>>)
                  \o <<"I", "n", "f", "i", "n", "i", "t", "y">>
        ELSE Let(FracDigits(Abs(x.n) % x.d, x.d, 17), LAMBDA fp :
                 (IF x.n < 0 THEN <<"-">> ELSE <<>>)
                 \o NatToString(Abs(x.n) \div x.d)
                 \o (IF fp = <<>> THEN <<>> ELSE <<".">> \o fp)))

-----------------------------------------------------------------------------
(* Scalars (types.ts ProductData values)                                   *)

StrVal(s)  == [t |-> "string",    s |-> s,    x |-> Zero, b |-> FALSE]
NumVal(x)  == [t |-> "number",    s |-> <<>>, x |-> x,    b |-> FALSE]
BoolVal(b) == [t |-> "boolean",   s |-> <<>>, x |-> Zero, b |-> b]
NullVal    == [t |-> "null",      s |-> <<>>, x |-> Zero, b |-> FALSE]
UndefVal   == [t |-> "undefined", s |-> <<>>, x |-> Zero, b |-> FALSE]

\* !value
Falsy(v) ==
    CASE v.t = "string"  -> v.s = <<>>
      [] v.t = "number"  -> v.x.n = 0
      [] v.t = "boolean" -> ~v.b
      [] OTHER           -> TRUE

\* String(value)
String(v) ==
    CASE v.t = "string"  -> v.s
      [] v.t = "number"  -> NumberToString(v.x)
      [] v.t = "boolean" -> IF v.b THEN <<"t", "r", "u", "e">>
                                   ELSE <<"f", "a", "l", "s", "e">>
      [] v.t = "null"    -> <<"n", "u", "l", "l">>
      [] OTHER           -> <<"u", "n", "d", "e", "f", "i", "n", "e", "d">>

\* string | null results
None == [some |-> FALSE, v |-> <<>>]

Some(s) == [some |-> TRUE, v |-> s]

-----------------------------------------------------------------------------
(* ValueNormalizer                                                         *)

NumericChars == DigitChars \cup {"."}

parseCurrencyUnstripped(v0) ==
    Let(v0, LAMBDA v :
        IF Falsy(v) THEN Zero
        ELSE Let(parseFloat(String(v)), LAMBDA num :
                 IF isNaN(num) THEN Zero ELSE num))

parseCurrency(v0) ==
    Let(v0, LAMBDA v :
        IF Falsy(v) THEN Zero
        ELSE Let(parseFloat(KeepIn(String(v), NumericChars)), LAMBDA num :
                 IF isNaN(num) THEN Zero ELSE num))

\* str.match(/[0-9.]+/): the first maximal run of digits and dots, if any
FirstNumericRun(s) ==
    Let(DropWhileIn(s, {c \in Range(s) : c \notin NumericChars}), LAMBDA r :
        IF r = <<>> THEN None ELSE Some(TakeWhileIn(r, NumericChars)))

parseWeightJinFirst(v0) ==
    Let(v0, LAMBDA v :
        IF Falsy(v) THEN Zero
        ELSE Let(trim(toLowerCase(String(v))), LAMBDA str :
             Let(FirstNumericRun(str), LAMBDA numMatch :
                 IF ~numMatch.some THEN Zero
                 ELSE Let(parseFloat(numMatch.v), LAMBDA num :
                      IF includes(str, <<uc.jin>>) THEN Mul(num, Whole(500))
                      ELSE IF includes(str, <<"k", "g">>) \/ includes(str, <<uc.gong, uc.jin>>)
                      THEN Mul(num, Whole(1000))
                      ELSE IF ~includes(str, <<"g">>) /\ ~includes(str, <<uc.jin>>)
                           THEN (IF Lt(num, Whole(10)) THEN Mul(num, Whole(1000))
                                 ELSE num)
                      ELSE num))))

parseWeightUpToTen(v0) ==
    Let(v0, LAMBDA v :
        IF Falsy(v) THEN Zero
        ELSE Let(trim(toLowerCase(String(v))), LAMBDA str :
             Let(FirstNumericRun(str), LAMBDA numMatch :
                 IF ~numMatch.some THEN Zero
                 ELSE Let(parseFloat(numMatch.v), LAMBDA num :
                      IF includes(str, <<"k", "g">>) \/ includes(str, <<uc.gong, uc.jin>>)
                      THEN Mul(num, Whole(1000))
                      ELSE IF includes(str, <<uc.jin>>) THEN Mul(num, Whole(500))
                      ELSE IF ~includes(str, <<"g">>) /\ ~includes(str, <<uc.jin>>)
                           THEN (IF Le(num, Whole(10)) THEN Mul(num, Whole(1000))
                                 ELSE num)
                      ELSE num))))

parseWeightToGrams(v0) ==
    Let(v0, LAMBDA v :
        IF Falsy(v) THEN Zero
        ELSE Let(trim(toLowerCase(String(v))), LAMBDA str :
             Let(FirstNumericRun(str), LAMBDA numMatch :
                 IF ~numMatch.some THEN Zero
                 ELSE Let(parseFloat(numMatch.v), LAMBDA num :
                      IF includes(str, <<"k", "g">>) \/ includes(str, <<uc.gong, uc.jin>>)
                      THEN Mul(num, Whole(1000))
                      ELSE IF includes(str, <<uc.jin>>) THEN Mul(num, Whole(500))
                      ELSE IF ~includes(str, <<"g">>) /\ ~includes(str, <<uc.jin>>)
                           THEN (IF Lt(num, Whole(10)) THEN Mul(num, Whole(1000))
                                 ELSE num)
                      ELSE num))))

-----------------------------------------------------------------------------
(* UrlExtractor                                                            *)

\* the separators of str.split(/[,;| \n\r\t]+/)
Separators == {",", ";", "|", " ", "\n", "\r", "\t"}

\* String.prototype.split on runs of separators: a leading or trailing run
\* leaves an empty first or last token
RECURSIVE split(_, _)
split(s0, seps) ==
    Let(s0, LAMBDA s :
    Let(TakeWhileNotIn(s, seps), LAMBDA tok :
    Let(SubSeq(s, Len(tok) + 1, Len(s)), LAMBDA rest :
        IF rest = <<>> THEN <<tok>>
        ELSE <<tok>> \o split(DropWhileIn(rest, seps), seps))))

\* '.' of a regular expression matches no line terminator
LineTerminators == {"\n", "\r"}

\* /^pre.+/
MatchesPrefixAndMore(p, pre) ==
    /\ startsWith(p, pre)
    /\ Len(p) > Len(pre)
    /\ p[Len(pre) + 1] \notin LineTerminators

\* /^https?:\/\/.+/
IsHttpUrl(p) ==
    \/ MatchesPrefixAndMore(p, <<"h", "t", "t", "p", ":", "/", "/">>)
    \/ MatchesPrefixAndMore(p, <<"h", "t", "t", "p", "s", ":", "/", "/">>)

\* /^data:image\/.+/
IsDataImage(p) ==
    MatchesPrefixAndMore(p, <<"d", "a", "t", "a", ":", "i", "m", "a", "g", "e", "/">>)

\* the extensions of /\.(jpg|jpeg|png|gif|webp|bmp|svg)$/i
TokenExtensions ==
    { <<"j", "p", "g">>, <<"j", "p", "e", "g">>, <<"p", "n", "g">>,
      <<"g", "i", "f">>, <<"w", "e", "b", "p">>, <<"b", "m", "p">>,
      <<"s", "v", "g">> }

EndsWithImageExt(p) ==
    Let(toLowerCase(p), LAMBDA l :
        \E e \in TokenExtensions : endsWith(l, <<".">> \o e))

\* p.replace(/['"]/g, '')
StripQuotes(p) == SelectSeq(p, LAMBDA c : c \notin {"'", "\""})

RECURSIVE LastImageToken(_)
LastImageToken(parts0) ==
    Let(parts0, LAMBDA parts :
        IF parts = <<>> THEN None
        ELSE Let(LastImageToken(Tail(parts)), LAMBDA later :
                 IF later.some THEN later
                 ELSE Let(trim(Head(parts)), LAMBDA p :
                          IF IsHttpUrl(p) \/ IsDataImage(p) THEN Some(StripQuotes(p))
                          ELSE IF EndsWithImageExt(p) THEN Some(p)
                          ELSE None)))

\* for (const part of parts) ...
RECURSIVE FirstImageToken(_)
FirstImageToken(parts0) ==
    Let(parts0, LAMBDA parts :
        IF parts = <<>> THEN None
        ELSE Let(trim(Head(parts)), LAMBDA p :
                 IF IsHttpUrl(p) \/ IsDataImage(p) THEN Some(StripQuotes(p))
                 ELSE IF EndsWithImageExt(p) THEN Some(p)
                 ELSE FirstImageToken(Tail(parts))))

\* as if a token pattern were a global regular expression that keeps its
\* lastIndex between two calls
extractFirstImageUrlSticky(v0) ==
    Let(v0, LAMBDA v :
        IF Falsy(v) \/ op = "extractFirstImageUrl" THEN None
        ELSE Let(trim(String(v)), LAMBDA str :
                 IF str = <<>> THEN None
                 ELSE FirstImageToken(split(str, Separators))))

extractFirstImageUrl(v0) ==
    Let(v0, LAMBDA v :
        IF Falsy(v) THEN None
        ELSE Let(trim(String(v)), LAMBDA str :
                 IF str = <<>> THEN None
                 ELSE FirstImageToken(split(str, Separators))))

\* a string | null result used as a condition
Truthy(r) == r.some /\ r.v # <<>>

-----------------------------------------------------------------------------
(* ColumnClassifier: findImageKey                                          *)

StrongKeywords ==
    { <<"i", "m", "a", "g", "e">>, <<"i", "m", "g">>, <<"p", "i", "c">>,
      <<"p", "h", "o", "t", "o">>, <<"p", "i", "c", "t", "u", "r", "e">>,
      <<"t", "h", "u", "m", "b", "n", "a", "i", "l">>,
      <<"a", "s", "s", "e", "t">>, <<"g", "a", "l", "l", "e", "r", "y">>,
      <<uc.tu>>, <<uc.xiang, uc.pian>>, <<uc.feng, uc.mian>>,
      <<uc.zhan, uc.shi4>>, <<uc.zhao, uc.pian>>, <<uc.wai, uc.guan>>,
      <<uc.yu, uc.lan>> }

CompoundKeywords ==
    { <<uc.zhu, uc.tu>>, <<uc.chan, uc.pin, uc.tu>>,
      <<uc.shang, uc.pin, uc.tu, uc.pian>>,
      <<uc.tu, uc.pian, uc.lian, uc.jie>>, <<uc.tu, uc.pian, uc.di, uc.zhi>>,
      <<uc.bao, uc.bei, uc.tu, uc.pian>>, <<uc.kuan, uc.shi, uc.tu>> }

WeakKeywords ==
    { <<"u", "r", "l">>, <<"l", "i", "n", "k">>, <<uc.lian, uc.jie>>,
      <<uc.di, uc.zhi>>, <<"s", "r", "c">>, <<"h", "r", "e", "f">> }

\* the extensions of /\.(jpg|jpeg|png|gif|webp|bmp|svg|tiff|ico)(\?.*)?$/i
ScoreExtensions ==
    TokenExtensions \cup { <<"t", "i", "f", "f">>, <<"i", "c", "o">> }

HasImageExt(url) ==
    Let(toLowerCase(url), LAMBDA l :
        \E e \in ScoreExtensions :
            \/ endsWith(l, <<".">> \o e)
            \/ \E i \in 1..(Len(l) - Len(e) - 1) :
                   /\ SubSeq(l, i, i + Len(e) + 1) = <<".">> \o e \o <<"?">>
                   /\ \A j \in (i + Len(e) + 2)..Len(l) : l[j] \notin LineTerminators)

PathKeywords ==
    { <<"/", "i", "m", "a", "g", "e", "s", "/">>, <<"/", "i", "m", "g", "/">>,
      <<"p", "h", "o", "t", "o", "s">>, <<"u", "p", "l", "o", "a", "d", "s">> }

CurrencySymbols == {uc.yen, "$", uc.fwyen, uc.euro, uc.pound}

\* rowData[key]: undefined for a key the row does not hold
Cell(row, key) == IF key \in DOMAIN row THEN row[key] ELSE UndefVal

HeaderScoreBestSignal(lowerKey) ==
    IF \E k \in CompoundKeywords : lowerKey = k \/ includes(lowerKey, k)
    THEN 30
    ELSE IF \E k \in StrongKeywords : includes(lowerKey, k)
    THEN 20
    ELSE IF \E k \in WeakKeywords : includes(lowerKey, k) THEN 5 ELSE 0

\* 1. Header Analysis
HeaderScore(lowerKey) ==
      (IF \E k \in StrongKeywords : includes(lowerKey, k) THEN 20 ELSE 0)
    + (IF \E k \in CompoundKeywords : lowerKey = k \/ includes(lowerKey, k)
       THEN 30 ELSE 0)
    + (IF \E k \in WeakKeywords : includes(lowerKey, k) THEN 5 ELSE 0)

\* 2. Content Analysis
ContentScore(val, extractedUrl) ==
      (IF Truthy(extractedUrl)
       THEN 20 + (IF HasImageExt(extractedUrl.v) THEN 30 ELSE 0)
               + (IF includes(extractedUrl.v,
                              <<"d", "a", "t", "a", ":", "i", "m", "a", "g", "e">>)
                  THEN 40 ELSE 0)
       ELSE 0)
    + (IF \E k \in PathKeywords : includes(val, k) THEN 10 ELSE 0)

NegativeScoreNoShortText(val, extractedUrl) ==
      (IF (includes(val, <<"\n">>) \/ includes(val, <<"\r">>)) /\ ~Truthy(extractedUrl)
       THEN -100 ELSE 0)
    + (IF val # <<>> /\ Head(val) \in CurrencySymbols THEN -50 ELSE 0)

NegativeScoreFirstPenalty(val, extractedUrl) ==
    IF (includes(val, <<"\n">>) \/ includes(val, <<"\r">>)) /\ ~Truthy(extractedUrl)
    THEN -100
    ELSE IF val # <<>> /\ Head(val) \in CurrencySymbols
    THEN -50
    ELSE IF Len(val) < 5 /\ ~includes(val, <<".">>) THEN -10 ELSE 0

\* 3. Negative signals
NegativeScore(val, extractedUrl) ==
      (IF (includes(val, <<"\n">>) \/ includes(val, <<"\r">>)) /\ ~Truthy(extractedUrl)
       THEN -100 ELSE 0)
    + (IF val # <<>> /\ Head(val) \in CurrencySymbols THEN -50 ELSE 0)
    + (IF Len(val) < 5 /\ ~includes(val, <<".">>) THEN -10 ELSE 0)

\* the { key, score, val } candidate of one header
Candidate(key, row) ==
    Let(toLowerCase(key), LAMBDA lowerKey :
    Let(Cell(row, key), LAMBDA rawVal :
    Let(trim(IF Falsy(rawVal) THEN <<>> ELSE String(rawVal)), LAMBDA val :
    Let(extractFirstImageUrl(StrVal(val)), LAMBDA extractedUrl :
        [ key   |-> key,
          score |-> HeaderScore(lowerKey) + ContentScore(val, extractedUrl)
                    + NegativeScore(val, extractedUrl),
          val   |-> val ]))))

\* headers.map(key => ...)
RECURSIVE Candidates(_, _)
Candidates(hs0, row) ==
    Let(hs0, LAMBDA hs :
        IF hs = <<>> THEN <<>>
        ELSE <<Candidate(Head(hs), row)>> \o Candidates(Tail(hs), row))

\* an unstable sort: c goes before the elements of equal score
RECURSIVE InsertBeforeEqualScore(_, _)
InsertBeforeEqualScore(c, sorted0) ==
    Let(sorted0, LAMBDA sorted :
        IF sorted = <<>> THEN <<c>>
        ELSE IF Head(sorted).score - c.score <= 0 THEN <<c>> \o sorted
        ELSE <<Head(sorted)>> \o InsertBeforeEqualScore(c, Tail(sorted)))

\* the place of c in a list sorted by b.score - a.score: after every element
\* that does not score less
RECURSIVE InsertByScore(_, _)
InsertByScore(c, sorted0) ==
    Let(sorted0, LAMBDA sorted :
        IF sorted = <<>> THEN <<c>>
        ELSE IF Head(sorted).score - c.score < 0 THEN <<c>> \o sorted
        ELSE <<Head(sorted)>> \o InsertByScore(c, Tail(sorted)))

\* candidates.sort((a, b) => b.score - a.score): Array.prototype.sort is
\* stable (ECMAScript 2019), so equal scores keep their order
RECURSIVE SortByScoreDesc(_)
SortByScoreDesc(cs0) ==
    Let(cs0, LAMBDA cs :
        IF cs = <<>> THEN <<>>
        ELSE Let(cs[Len(cs)], LAMBDA c :
                 InsertByScore(c, SortByScoreDesc(SubSeq(cs, 1, Len(cs) - 1)))))

\* candidates.find(c => extractFirstImageUrl(c.val))
RECURSIVE FindWithUrl(_)
FindWithUrl(cs0) ==
    Let(cs0, LAMBDA cs :
        IF cs = <<>> THEN None
        ELSE IF Truthy(extractFirstImageUrl(StrVal(Head(cs).val)))
             THEN Some(Head(cs).key)
        ELSE FindWithUrl(Tail(cs)))

\* the threshold of `best.score > 10`
ScoreThreshold == 10

findImageKey(hs, row) ==
    IF Len(hs) = 0 THEN None
    ELSE Let(SortByScoreDesc(Candidates(hs, row)), LAMBDA candidates :
         Let(candidates[1], LAMBDA best :
             IF best.score > ScoreThreshold THEN Some(best.key)
             ELSE FindWithUrl(candidates)))

-----------------------------------------------------------------------------
(* ProfitCalculator (ProductModal.calculateProfit)                         *)

\* parseFloat(input) || 0
FloatOrZero(input) ==
    Let(parseFloat(input), LAMBDA x : IF x.n = 0 THEN Zero ELSE x)

\* the first band closed at 500 g instead of open
shippingFeeUpTo500(w) ==
    IF Gt(w, Zero)
    THEN (IF Le(w, Whole(500)) THEN Num(18, 10)
          ELSE IF Le(w, Whole(1000)) THEN Num(22, 10)
          ELSE Num(26, 10))
    ELSE Zero

\* 1. Shipping Fee Logic
shippingFeeOf(w) ==
    IF Gt(w, Zero)
    THEN (IF Lt(w, Whole(500)) THEN Num(18, 10)
          ELSE IF Le(w, Whole(1000)) THEN Num(22, 10)
          ELSE Num(26, 10))
    ELSE Zero

\* 2. Fixed Fees
opFee == Num(7, 10)

\* the digits of the box fee transposed
boxFeeTransposed == Num(54, 100)

boxFee == Num(45, 100)

\* 3. Variable Fees
platformFeeOf(p) == Mul(p, Num(5, 100))

\* the tax taken at the platform's rate
taxFeeAtPlatformRate(p) == Mul(p, Num(5, 100))

taxFeeOf(p) == Mul(p, Num(8, 100))

\* the box fee left out of the sum
totalFeeWithoutBox(platformFee, taxFee, shippingFee) ==
    Add(Add(Add(platformFee, taxFee), opFee), shippingFee)

totalFeeOf(platformFee, taxFee, shippingFee) ==
    Add(Add(Add(Add(platformFee, taxFee), opFee), boxFee), shippingFee)

\* the margin without its p > 0 guard
grossMarginUnguarded(grossProfit, p) == Mul(Div(grossProfit, p), Whole(100))

\* --- Gross Results (Before Return) ---
grossMarginOf(grossProfit, p) ==
    IF Gt(p, Zero) THEN Mul(Div(grossProfit, p), Whole(100)) ELSE Zero

roiUnguarded(grossProfit, totalCost) == Mul(Div(grossProfit, totalCost), Whole(100))

roiOf(grossProfit, totalCost) ==
    IF Gt(totalCost, Zero) THEN Mul(Div(grossProfit, totalCost), Whole(100))
    ELSE Zero

\* --- Net Results (After 10% Return) ---
returnRate == Num(10, 100)

successRate == Sub(Whole(1), returnRate)

\* the sunk costs weighted by the success rate like the other costs
weightedCostAllScaled(c, sunkCosts, successCosts) ==
    Add(Add(Mul(c, successRate), Mul(sunkCosts, successRate)),
        Mul(successCosts, successRate))

weightedCostOf(c, sunkCosts, successCosts) ==
    Add(Add(Mul(c, successRate), Mul(sunkCosts, Whole(1))),
        Mul(successCosts, successRate))

netMarginOf(netProfit, weightedRevenue) ==
    IF Gt(weightedRevenue, Zero)
    THEN Mul(Div(netProfit, weightedRevenue), Whole(100)) ELSE Zero

\* a result that also carries the reciprocal of the net margin
ResultWithEfficiency(shippingFee, platformFee, taxFee, totalCost, grossProfit, grossMargin, roi, netProfit, netMargin) ==
    [ shippingFee |-> shippingFee,
      platformFee |-> platformFee,
      taxFee      |-> taxFee,
      opFee       |-> opFee,
      boxFee      |-> boxFee,
      totalCost   |-> totalCost,
      grossProfit |-> grossProfit,
      grossMargin |-> grossMargin,
      roi         |-> roi,
      netProfit   |-> netProfit,
      netMargin   |-> netMargin,
      investmentEfficiency |->
          IF Gt(netMargin, Zero) THEN Div(Whole(1), netMargin) ELSE Zero ]

\* return { shippingFee, ..., netMargin }
Result(shippingFee, platformFee, taxFee, totalCost, grossProfit, grossMargin, roi, netProfit, netMargin) ==
    [ shippingFee |-> shippingFee,
      platformFee |-> platformFee,
      taxFee      |-> taxFee,
      opFee       |-> opFee,
      boxFee      |-> boxFee,
      totalCost   |-> totalCost,
      grossProfit |-> grossProfit,
      grossMargin |-> grossMargin,
      roi         |-> roi,
      netProfit   |-> netProfit,
      netMargin   |-> netMargin ]

calculateProfit(price, cost, weight) ==
    Let(FloatOrZero(price), LAMBDA p :
    Let(FloatOrZero(cost), LAMBDA c :
    Let(FloatOrZero(weight), LAMBDA w :
    Let(shippingFeeOf(w), LAMBDA shippingFee :
    Let(platformFeeOf(p), LAMBDA platformFee :
    Let(taxFeeOf(p), LAMBDA taxFee :
    Let(totalFeeOf(platformFee, taxFee, shippingFee), LAMBDA totalFee :
    Let(Add(c, totalFee), LAMBDA totalCost :
    Let(Sub(p, totalCost), LAMBDA grossProfit :
    Let(Mul(p, successRate), LAMBDA weightedRevenue :
    Let(Add(Add(shippingFee, boxFee), opFee), LAMBDA sunkCosts :
    Let(Add(platformFee, taxFee), LAMBDA successCosts :
    Let(weightedCostOf(c, sunkCosts, successCosts), LAMBDA weightedCost :
    Let(Sub(weightedRevenue, weightedCost), LAMBDA netProfit :
        Result(shippingFee, platformFee, taxFee, totalCost, grossProfit,
               grossMarginOf(grossProfit, p), roiOf(grossProfit, totalCost),
               netProfit, netMarginOf(netProfit, weightedRevenue))))))))))))))))

-----------------------------------------------------------------------------
(* HeaderClassifier: findTitleKey, findBrandKey                            *)

\* headers.find(pred): the first element that satisfies pred, if any
Find(hs, pred(_)) ==
    Let({i \in DOMAIN hs : pred(hs[i])}, LAMBDA found :
        IF found = {} THEN None
        ELSE Some(hs[CHOOSE i \in found : \A j \in found : i <= j]))

\* a || b on strings: the empty string is falsy
OrElse(a, b) == IF a # <<>> THEN a ELSE b

TitleCandidates ==
    << <<"n", "a", "m", "e">>, <<"t", "i", "t", "l", "e">>,
       <<"p", "r", "o", "d", "u", "c", "t">>, <<"b", "r", "a", "n", "d">>,
       <<"m", "o", "d", "e", "l">>, <<"i", "t", "e", "m">>, <<"s", "k", "u">>,
       <<uc.ming, uc.cheng>>, <<uc.chan, uc.pin>>, <<uc.biao, uc.ti>>,
       <<uc.xing, uc.hao>>, <<uc.pin, uc.ming>>, <<uc.kuan, uc.shi>>,
       <<uc.shang, uc.pin>>, <<uc.kuan, uc.hao>>, <<uc.ming, uc.zi4>>,
       <<uc.huo, uc.hao>> >>

\* candidates.some(c => h.toLowerCase().includes(c))
ContainsAny(h, candidates) ==
    Let(toLowerCase(h), LAMBDA l : \E c \in Range(candidates) : includes(l, c))

RECURSIVE FirstByKeyword(_, _)
FirstByKeyword(hs, candidates) ==
    IF candidates = <<>> THEN None
    ELSE Let(Find(hs, LAMBDA h : includes(toLowerCase(h), Head(candidates))),
             LAMBDA found :
                 IF found.some THEN found
                 ELSE FirstByKeyword(hs, Tail(candidates)))

findTitleByKeywordPriority(hs) ==
    Let(FirstByKeyword(hs, TitleCandidates), LAMBDA found :
        OrElse(IF found.some THEN found.v ELSE <<>>,
               OrElse(IF hs # <<>> THEN hs[1] ELSE <<>>, <<>>)))

findTitleKey(hs) ==
    Let(Find(hs, LAMBDA h : ContainsAny(h, TitleCandidates)), LAMBDA found :
        OrElse(IF found.some THEN found.v ELSE <<>>,
               OrElse(IF hs # <<>> THEN hs[1] ELSE <<>>, <<>>)))

BrandCandidates ==
    << <<"b", "r", "a", "n", "d">>, <<"v", "e", "n", "d", "o", "r">>,
       <<"m", "a", "n", "u", "f", "a", "c", "t", "u", "r", "e", "r">>,
       <<"m", "a", "k", "e">>,
       <<uc.pin, uc.pai>>, <<uc.chang, uc.shang>>, <<uc.chang, uc.jia>>,
       <<uc.shang, uc.biao>>, <<uc.pai, uc.zi>>, <<uc.fen, uc.lei>>,
       <<uc.xi, uc.lie>>,
       <<"c", "a", "t", "e", "g", "o", "r", "y">> >>

findBrandPartialOnly(hs) ==
    Let(Find(hs, LAMBDA h : ContainsAny(h, BrandCandidates)), LAMBDA found :
        IF found.some /\ found.v # <<>> THEN found ELSE None)

findBrandKey(hs) ==
    \* 1. Exact match priority
    Let(Find(hs, LAMBDA h : trim(toLowerCase(h)) \in Range(BrandCandidates)),
        LAMBDA exact :
        IF exact.some /\ exact.v # <<>> THEN exact
        ELSE \* 2. Partial match
             Let(Find(hs, LAMBDA h : ContainsAny(h, BrandCandidates)),
                 LAMBDA found :
                 IF found.some /\ found.v # <<>> THEN found ELSE None))

-----------------------------------------------------------------------------
(* LocalAssetMatcher: findLocalImageMatch                                  *)

\* the optional localImageMap prop: not supplied, or a Map given by its
\* entries in insertion order
Absent == [given |-> FALSE, entries |-> <<>>]

Supplied(entries) == [given |-> TRUE, entries |-> entries]

\* Object.values(data), the row's keys being its headers in sheet order
ObjectValues(hs, row) == [i \in DOMAIN hs |-> row[hs[i]]]

\* strVal.replace(/\.[^/.]+$/, ""): the last dot and what follows it are
\* removed, when something follows and holds no slash
StripExtension(s0) ==
    Let(s0, LAMBDA s :
    Let({i \in DOMAIN s : s[i] = "."}, LAMBDA dots :
        IF dots = {} THEN s
        ELSE Let(CHOOSE i \in dots : \A j \in dots : j <= i, LAMBDA last :
                 IF last < Len(s) /\ \A j \in (last + 1)..Len(s) : s[j] # "/"
                 THEN SubSeq(s, 1, last - 1)
                 ELSE s)))

\* localImageMap.has(key), localImageMap.get(key)
MapHas(entries, key) == \E i \in DOMAIN entries : entries[i].key = key

MapGet(entries, key) ==
    entries[CHOOSE i \in DOMAIN entries : entries[i].key = key].ref

\* for (const val of values) ... with the exact checks before the
\* case-insensitive one
RECURSIVE MatchExactFirst(_, _)
MatchExactFirst(values0, entries) ==
    Let(values0, LAMBDA values :
        IF values = <<>> THEN None
        ELSE IF Falsy(Head(values)) THEN MatchExactFirst(Tail(values), entries)
        ELSE Let(trim(String(Head(values))), LAMBDA strVal :
             Let(StripExtension(strVal), LAMBDA cleanVal :
             Let(Find(entries, LAMBDA e : toLowerCase(e.key) = toLowerCase(cleanVal)),
                 LAMBDA match :
                 IF MapHas(entries, strVal) THEN Some(MapGet(entries, strVal))
                 ELSE IF MapHas(entries, cleanVal)
                      THEN Some(MapGet(entries, cleanVal))
                 ELSE IF match.some THEN Some(match.v.ref)
                 ELSE MatchExactFirst(Tail(values), entries)))))

\* for (const val of values) ...
RECURSIVE MatchValues(_, _)
MatchValues(values0, entries) ==
    Let(values0, LAMBDA values :
        IF values = <<>> THEN None
        ELSE IF Falsy(Head(values)) THEN MatchValues(Tail(values), entries)
        ELSE Let(trim(String(Head(values))), LAMBDA strVal :
             Let(StripExtension(strVal), LAMBDA cleanVal :
             \* Check case-insensitive
             Let(Find(entries, LAMBDA e : toLowerCase(e.key) = toLowerCase(cleanVal)),
                 LAMBDA match :
                 IF match.some THEN Some(match.v.ref)
                 \* 2. Try strict match if the cell is exactly the key
                 ELSE IF MapHas(entries, strVal) THEN Some(MapGet(entries, strVal))
                 ELSE IF MapHas(entries, cleanVal)
                      THEN Some(MapGet(entries, cleanVal))
                 ELSE MatchValues(Tail(values), entries)))))

findLocalImageMatchEmptyString(values, entries) ==
    IF Len(entries) = 0 THEN Some(<<>>) ELSE MatchValues(values, entries)

findLocalImageMatch(values, entries) ==
    IF Len(entries) = 0 THEN None ELSE MatchValues(values, entries)

\* ProductCard, ProductModal: localImageMap ? findLocalImageMatch(...) : null
localImageOf(values, prop) ==
    IF prop.given THEN findLocalImageMatch(values, prop.entries) ELSE None

-----------------------------------------------------------------------------
(* Bounded inputs                                                          *)

\* the longest header list
MaxHeaders == 2

\* numeric cells and numerals run over the halves 0, 0.5, ..., MaxHalves/2
MaxHalves == 21

\* calculator inputs: prices 0, 50, ..., costs 0, 20, ..., weights 0, 250, ...
MaxPriceSteps == 3

MaxCostSteps == 2

MaxWeightSteps == 9

HeaderPool ==
    { <<"p", "i", "c">>,                         \* strong keyword
      <<"P", "h", "o", "t", "o">>,               \* strong keyword, upper case
      <<"u", "r", "l">>,                         \* weak keyword
      <<uc.yan, uc.se>>,                         \* "colour": no keyword
      <<uc.tu, uc.pian, uc.lian, uc.jie>> }      \* strong + compound + weak

CellPool ==
    { StrVal(<<"h", "t", "t", "p", ":", "/", "/", "x", ".", "c", "o", "m", "/",
               "a", ".", "j", "p", "g">>),
      StrVal(<<"h", "t", "t", "p", ":", "/", "/", "x", ".", "c", "o", "m", "/", "a">>),
      StrVal(<<uc.hong, uc.se>>),
      StrVal(<<uc.yen, " ", "a", ".", "p", "n", "g">>),
      StrVal(<<"$", " ", "h", "t", "t", "p", ":", "/", "/", "a", ".", "b">>),
      StrVal(<<"u", "p", "l", "o", "a", "d", "s">>),
      StrVal(<<"l", "i", "n", "e", "\n", "t", "w", "o">>),
      UndefVal }

\* the header lists without repetition (headers are the keys of a record)
\* the most fragments in one cell text
MaxTokens == 2

\* the cell texts offered to extractFirstImageUrl are fragments joined by
\* separators
Fragments ==
    { \* an http URL
      <<"h", "t", "t", "p", ":", "/", "/", "x", ".", "c", "o", "m", "/", "b", ".",
        "j", "p", "g">>,
      \* an https URL without extension
      <<"h", "t", "t", "p", "s", ":", "/", "/", "x", ".", "c", "o", "m", "/", "i",
        "?", "s", "=", "1">>,
      \* a data URI
      <<"d", "a", "t", "a", ":", "i", "m", "a", "g", "e", "/", "p", "n", "g">>,
      \* a file name with an upper-case extension
      <<"p", "h", "o", "t", "o", ".", "P", "N", "G">>,
      \* plain words
      <<"d", "e", "s", "c", " ", "t", "e", "x", "t">>,
      <<"n", "o", " ", "l", "i", "n", "k", "s", " ", "h", "e", "r", "e">>,
      \* the scheme alone
      <<"h", "t", "t", "p", ":", "/", "/">>,
      \* upper-case scheme and extension
      <<"H", "T", "T", "P", ":", "/", "/", "X", ".", "C", "O", "M", "/", "A", ".",
        "J", "P", "G">>,
      \* a URL before a closing quote
      <<"h", "t", "t", "p", ":", "/", "/", "x", ".", "c", "o", "m", "/", "c", ".",
        "g", "i", "f", "\"">>,
      \* a URL in quotes
      <<"\"", "h", "t", "t", "p", ":", "/", "/", "x", ".", "c", "o", "m", "/", "q",
        ".", "p", "n", "g", "\"">>,
      \* a URL with an apostrophe in its path
      <<"h", "t", "t", "p", ":", "/", "/", "x", ".", "c", "o", "m", "/", "i", "t",
        "'", "s", ".", "j", "p", "g">> }

Joiners == { <<",", " ">>, <<";">>, <<"|", "\n">> }

RECURSIVE Texts(_)
Texts(n) ==
    IF n = 1 THEN Fragments
    ELSE Let(Texts(n - 1), LAMBDA shorter :
             shorter \cup { t \o j \o f : t \in shorter, j \in Joiners, f \in Fragments })

CellValues ==
    { StrVal(t) : t \in Texts(MaxTokens) }
    \cup { StrVal(<<>>), StrVal(<<" ", " ">>), NumVal(Whole(5)), BoolVal(TRUE),
           BoolVal(FALSE), NullVal, UndefVal }

\* the most entries in a local asset index
MaxEntries == 2

\* the keys of the local asset indexes, each with a reference of its own
IndexKeys ==
    { <<"A", "1", "2", "3">>, <<"a", "1", "2", "3">>,
      <<"A", "1", "2", "3", ".", "j", "p", "g">>, <<"0">> }

Entry(key) == [key |-> key, ref |-> <<"b", "l", "o", "b", ":">> \o key]

\* a Map holds a key once
IndexLists ==
    { [i \in DOMAIN ks |-> Entry(ks[i])] :
        ks \in { l \in UNION { [1..n -> IndexKeys] : n \in 0..MaxEntries } :
                   \A i, j \in DOMAIN l : i # j => l[i] # l[j] } }

\* the cells of the rows offered to findLocalImageMatch
MatchCells ==
    { StrVal(<<"A", "1", "2", "3", ".", "j", "p", "g">>),
      StrVal(<<" ", "a", "1", "2", "3", " ">>),
      StrVal(<<"0", ".", "p", "n", "g">>),
      StrVal(<<>>),
      NumVal(Zero) }

\* their columns are named c1, c2, ...
MatchColumns(n) == [i \in 1..n |-> <<"c">> \o NatToString(i)]

\* the calls counted after the remembered one
MaxLater == 2

\* the sheets (headers and one row), values and indexes on which every engine
\* operation is called in turn
EngineSheets ==
    { [ headers |-> << <<"p", "i", "c">>, <<"u", "r", "l">> >>,
        rowData |-> (<<"p", "i", "c">> :>
                         StrVal(<<"h", "t", "t", "p", ":", "/", "/", "x", ".", "c",
                                  "o", "m", "/", "a", ".", "j", "p", "g">>)
                     @@ <<"u", "r", "l">> :>
                         StrVal(<<"u", "p", "l", "o", "a", "d", "s">>)) ],
      [ headers |-> << <<uc.yan, uc.se>>, <<"u", "r", "l">> >>,
        rowData |-> (<<uc.yan, uc.se>> :>
                         StrVal(<<"$", " ", "h", "t", "t", "p", ":", "/", "/", "a",
                                  ".", "b">>)
                     @@ <<"u", "r", "l">> :>
                         StrVal(<<uc.yen, " ", "a", ".", "p", "n", "g">>)) ],
      [ headers |-> << <<"B", "r", "a", "n", "d", " ">>, <<"S", "K", "U">> >>,
        rowData |-> (<<"B", "r", "a", "n", "d", " ">> :>
                         StrVal(<<"A", "1", "2", "3", ".", "j", "p", "g">>)
                     @@ <<"S", "K", "U">> :> StrVal(<<"a", "1", "2", "3">>)) ] }

EngineValues ==
    { StrVal(<<"1", ".", "5", uc.gong, uc.jin>>),
      StrVal(<<uc.yen, " ", "a", ".", "p", "n", "g">>) }

EngineIndexes ==
    { Supplied(<<>>), Supplied(<<Entry(<<"A", "1", "2", "3">>)>>) }

\* the headers and cells offered to findImageKey one at a time
ScoreHeaders ==
    { \* strong
      <<"p", "i", "c">>,
      \* strong and weak, upper case
      <<"I", "M", "G", "_", "U", "R", "L">>,
      \* weak
      <<"u", "r", "l">>,
      \* no keyword
      <<uc.yan, uc.se>>,
      \* strong, compound and weak
      <<uc.tu, uc.pian, uc.lian, uc.jie>>,
      \* strong and compound
      <<uc.zhu, uc.tu>>,
      \* weak, inside a word
      <<"h", "y", "p", "e", "r", "l", "i", "n", "k">> }

ScoreCells ==
    { \* a URL with an extension
      StrVal(<<"h", "t", "t", "p", ":", "/", "/", "x", ".", "c", "o", "m",
          "/", "a", ".", "j", "p", "g">>),
      \* a URL without one
      StrVal(<<"h", "t", "t", "p", ":", "/", "/", "x", ".", "c", "o", "m",
          "/", "a">>),
      \* an extension before a query
      StrVal(<<"h", "t", "t", "p", ":", "/", "/", "x", ".", "c", "o", "m",
          "/", "a", ".", "p", "n", "g", "?", "w", "=", "1">>),
      \* a data URI
      StrVal(<<"d", "a", "t", "a", ":", "i", "m", "a", "g", "e", "/", "p",
          "n", "g">>),
      \* a data URI that ends with an extension
      StrVal(<<"d", "a", "t", "a", ":", "i", "m", "a", "g", "e", "/", "x",
          ".", "p", "n", "g">>),
      \* a path keyword, no URL
      StrVal(<<"/", "i", "m", "g", "/", "a">>),
      \* a file name the extractor does not know
      StrVal(<<"a", ".", "t", "i", "f", "f">>),
      \* short text
      StrVal(<<uc.hong, uc.se>>),
      \* short text with a dot
      StrVal(<<"x", ".", "y">>),
      \* a currency sign before a file name
      StrVal(<<uc.yen, " ", "a", ".", "p", "n", "g">>),
      \* a short price
      StrVal(<<"$", "1", "2">>),
      \* two lines
      StrVal(<<"l", "i", "n", "e", "\n", "t", "w", "o">>),
      \* two short lines
      StrVal(<<"a", "\r", "b">>),
      \* two short lines behind a currency sign
      StrVal(<<uc.pound, "1", "\n", "2">>),
      \* two lines with a URL
      StrVal(<<"s", "e", "e", "\n", "h", "t", "t", "p", ":", "/", "/", "x",
          ".", "c", "o", "m", "/", "a">>),
      \* an empty cell
      UndefVal }

\* headers offered to findTitleKey and findBrandKey
ColumnPool ==
    { <<"B", "r", "a", "n", "d", " ">>,          \* a brand keyword once trimmed
      <<"b", "r", "a", "n", "d", " ", "n", "a", "m", "e">>,  \* holds brand, name
      <<uc.pin, uc.pai>>,                        \* a brand keyword, no title one
      <<"m", "a", "k", "e", "-", "u", "p">>,     \* holds make, no title keyword
      <<"S", "K", "U">>,                         \* the last ASCII title keyword
      <<uc.ming, uc.cheng>>,                     \* a title keyword, no brand one
      <<"p", "r", "i", "c", "e">> }              \* no keyword

ColumnLists ==
    { hs \in UNION { [1..n -> ColumnPool] : n \in 0..MaxHeaders } :
        \A i, j \in DOMAIN hs : i # j => hs[i] # hs[j] }

HeaderLists ==
    { hs \in UNION { [1..n -> HeaderPool] : n \in 0..MaxHeaders } :
        \A i, j \in DOMAIN hs : i # j => hs[i] # hs[j] }

Numerals == { NumberToString(Num(k, 2)) : k \in 0..MaxHalves }

OddNumerals ==
    { <<>>, <<".">>, <<".", ".">>, <<"a", "b", "c">>, <<"5", "0", "0">>,
      <<"1", ",", "2", "0", "0", ".", "5", "0">>, <<"1", ".", "2", ".", "3">> }

Prefixes == { <<>>, <<uc.yen>>, <<" ">> }

Units ==
    { <<>>, <<"g">>, <<"k", "g">>, <<"K", "G">>, <<uc.jin>>, <<uc.gong, uc.jin>>,
      <<uc.jin, "k", "g">> }

ScalarPool ==
    { StrVal(pre \o num \o unit) :
        pre \in Prefixes, num \in Numerals \cup OddNumerals, unit \in Units }
    \cup { NumVal(Num(k, 2)) : k \in 0..MaxHalves }
    \cup { NumVal(NaN), NumVal(Whole(-3)), BoolVal(TRUE), BoolVal(FALSE),
           NullVal, UndefVal }

PriceInputs ==
    { NumberToString(Whole(k * 50)) : k \in 0..MaxPriceSteps }
    \cup { <<>>, <<"-", "5">> }

CostInputs ==
    { NumberToString(Whole(k * 20)) : k \in 0..MaxCostSteps }
    \cup { <<>>, <<"-", "2", "0">> }

WeightInputs ==
    { NumberToString(Whole(k * 250)) : k \in 0..MaxWeightSteps }
    \cup { <<>>, <<"3", "0", "0">>, <<"4", "9", "9", ".", "5">>,
           <<"1", "0", "0", "0", ".", "5">>, <<"-", "1">> }

-----------------------------------------------------------------------------
(* State machines                                                          *)

\* useState('0') for the three calculator inputs
InitCalc ==
    /\ inputPrice = <<"0">>
    /\ inputCost = <<"0">>
    /\ inputWeight = <<"0">>
    /\ calcResult = calculateProfit(inputPrice, inputCost, inputWeight)

NoSheet ==
    /\ headers = <<>>
    /\ rowData = <<>>

NoValue == value = UndefVal

NoIndex == localImageMap = Absent

\* no call is remembered
NoCall == [called |-> FALSE, op |-> "none", input |-> <<>>, out |-> None,
           later |-> 0]

\* nothing has happened in the state the engine and the calculator leave alone
Untouched ==
    /\ returned = NoCall
    /\ files = <<>>
    /\ nextUrl = 0
    /\ isLoading = FALSE
    /\ error = "null"
    /\ parses = <<>>
    /\ demoTimer = FALSE
    /\ sheets = None

\* The classifier is applied to a sheet's header list and one of its rows.
InitClassify ==
    /\ headers \in HeaderLists
    /\ rowData \in [Range(headers) -> CellPool]
    /\ NoValue
    /\ InitCalc
    /\ Untouched
    /\ NoIndex
    /\ op = "none"
    /\ ret = None

FindImageKey ==
    /\ op' = "findImageKey"
    /\ ret' = findImageKey(headers, rowData)
    /\ UNCHANGED <<headers, rowData, localImageMap, value, inputPrice, inputCost,
                   inputWeight, calcResult, elsewhere>>

NextClassify == FindImageKey

SpecClassify == InitClassify /\ [][NextClassify]_vars

\* The classifier is applied to a sheet of one column, which shows the score
\* of one header and one cell.
InitScore ==
    /\ \E h \in ScoreHeaders, c \in ScoreCells :
           /\ headers = <<h>>
           /\ rowData = (h :> c)
    /\ NoValue
    /\ InitCalc
    /\ Untouched
    /\ NoIndex
    /\ op = "none"
    /\ ret = None

NextScore == FindImageKey

SpecScore == InitScore /\ [][NextScore]_vars

\* The column classifiers are applied to a sheet's header list.
InitColumns ==
    /\ headers \in ColumnLists
    /\ rowData = <<>>
    /\ NoValue
    /\ InitCalc
    /\ Untouched
    /\ NoIndex
    /\ op = "none"
    /\ ret = None

FindTitleKey ==
    /\ op' = "findTitleKey"
    /\ ret' = findTitleKey(headers)
    /\ UNCHANGED <<headers, rowData, localImageMap, value, inputPrice, inputCost,
                   inputWeight, calcResult, elsewhere>>

FindBrandKey ==
    /\ op' = "findBrandKey"
    /\ ret' = findBrandKey(headers)
    /\ UNCHANGED <<headers, rowData, localImageMap, value, inputPrice, inputCost,
                   inputWeight, calcResult, elsewhere>>

NextColumns == FindTitleKey \/ FindBrandKey

SpecColumns == InitColumns /\ [][NextColumns]_vars

\* The URL extractor is applied to one cell value.
InitExtract ==
    /\ NoSheet
    /\ value \in CellValues
    /\ InitCalc
    /\ Untouched
    /\ NoIndex
    /\ op = "none"
    /\ ret = None

ExtractFirstImageUrl ==
    /\ op' = "extractFirstImageUrl"
    /\ ret' = extractFirstImageUrl(value)
    /\ UNCHANGED <<headers, rowData, localImageMap, value, inputPrice, inputCost,
                   inputWeight, calcResult, elsewhere>>

NextExtract == ExtractFirstImageUrl

SpecExtract == InitExtract /\ [][NextExtract]_vars

\* The local asset matcher is applied to a row and an index, directly or by
\* a ProductCard that was or was not given an index.
InitMatch ==
    /\ headers \in { MatchColumns(n) : n \in 0..MaxHeaders }
    /\ rowData \in [Range(headers) -> MatchCells]
    /\ localImageMap \in {Absent} \cup { Supplied(m) : m \in IndexLists }
    /\ NoValue
    /\ InitCalc
    /\ Untouched
    /\ op = "none"
    /\ ret = None

FindLocalImageMatch ==
    /\ localImageMap.given
    /\ op' = "findLocalImageMatch"
    /\ ret' = findLocalImageMatch(ObjectValues(headers, rowData),
                                  localImageMap.entries)
    /\ UNCHANGED <<headers, rowData, localImageMap, value, inputPrice, inputCost,
                   inputWeight, calcResult, elsewhere>>

LocalImage ==
    /\ op' = "ProductCard"
    /\ ret' = localImageOf(ObjectValues(headers, rowData), localImageMap)
    /\ UNCHANGED <<headers, rowData, localImageMap, value, inputPrice, inputCost,
                   inputWeight, calcResult, elsewhere>>

NextMatch == FindLocalImageMatch \/ LocalImage

SpecMatch == InitMatch /\ [][NextMatch]_vars

\* The engine as its callers use it: every operation is called, in any order
\* and any number of times, on the current sheet, value and index, and the
\* caller moves on to other inputs between calls.
EngineOps ==
    { "findTitleKey", "findBrandKey", "findImageKey", "extractFirstImageUrl",
      "parseCurrency", "parseWeightToGrams", "findLocalImageMatch" }

\* the arguments of a call of an operation in the current state
InputOf(o) ==
    CASE o \in {"findTitleKey", "findBrandKey"} -> <<headers>>
      [] o = "findImageKey" -> <<headers, rowData>>
      [] o = "findLocalImageMatch" -> <<headers, rowData, localImageMap>>
      [] OTHER -> <<value>>

\* a call returns; an observer may remember it if it remembers none yet, and
\* counts the calls that follow the one it remembers
Returns(o, out) ==
    /\ op' = o
    /\ ret' = out
    /\ \/ /\ ~returned.called
          /\ returned' = returned
       \/ /\ ~returned.called
          /\ returned' = [called |-> TRUE, op |-> o, input |-> InputOf(o),
                          out |-> out, later |-> 0]
       \/ /\ returned.called
          /\ returned' = [returned EXCEPT !.later = Min({@ + 1, MaxLater})]
    /\ UNCHANGED <<value, inputPrice, inputCost, inputWeight, calcResult, components>>

InitEngine ==
    /\ \E sheet \in EngineSheets :
           /\ headers = sheet.headers
           /\ rowData = sheet.rowData
    /\ value \in EngineValues
    /\ localImageMap \in EngineIndexes
    /\ InitCalc
    /\ Untouched
    /\ op = "none"
    /\ ret = None

CallFindTitleKey ==
    /\ Returns("findTitleKey", findTitleKey(headers))
    /\ UNCHANGED <<headers, rowData, localImageMap>>

CallFindBrandKey ==
    /\ Returns("findBrandKey", findBrandKey(headers))
    /\ UNCHANGED <<headers, rowData, localImageMap>>

\* as if the sort were applied to the header list itself
CallFindImageKeySortingHeaders ==
    /\ Returns("findImageKey", findImageKey(headers, rowData))
    /\ headers' = Let(SortByScoreDesc(Candidates(headers, rowData)), LAMBDA cs :
                      [i \in DOMAIN cs |-> cs[i].key])
    /\ UNCHANGED <<rowData, localImageMap>>

CallFindImageKey ==
    /\ Returns("findImageKey", findImageKey(headers, rowData))
    /\ UNCHANGED <<headers, rowData, localImageMap>>

CallExtractFirstImageUrl ==
    /\ Returns("extractFirstImageUrl", extractFirstImageUrl(value))
    /\ UNCHANGED <<headers, rowData, localImageMap>>

CallParseCurrency ==
    /\ Returns("parseCurrency", parseCurrency(value))
    /\ UNCHANGED <<headers, rowData, localImageMap>>

CallParseWeightToGrams ==
    /\ Returns("parseWeightToGrams", parseWeightToGrams(value))
    /\ UNCHANGED <<headers, rowData, localImageMap>>

CallFindLocalImageMatch ==
    /\ Returns("findLocalImageMatch",
               findLocalImageMatch(ObjectValues(headers, rowData),
                                   localImageMap.entries))
    /\ UNCHANGED <<headers, rowData, localImageMap>>

\* the caller turns to another sheet, value or index
OtherInput ==
    /\ \E sheet \in EngineSheets :
           /\ headers' = sheet.headers
           /\ rowData' = sheet.rowData
    /\ value' \in EngineValues
    /\ localImageMap' \in EngineIndexes
    /\ <<headers', rowData', value', localImageMap'>>
           # <<headers, rowData, value, localImageMap>>
    /\ op' = "none"
    /\ ret' = None
    /\ UNCHANGED <<inputPrice, inputCost, inputWeight, calcResult, returned,
                   components>>

NextEngine ==
    \/ CallFindTitleKey
    \/ CallFindBrandKey
    \/ CallFindImageKey
    \/ CallExtractFirstImageUrl
    \/ CallParseCurrency
    \/ CallParseWeightToGrams
    \/ CallFindLocalImageMatch
    \/ OtherInput

SpecEngine == InitEngine /\ [][NextEngine]_vars

\* The normalizers are applied to one scalar.
InitNormalize ==
    /\ NoSheet
    /\ value \in ScalarPool
    /\ InitCalc
    /\ Untouched
    /\ NoIndex
    /\ op = "none"
    /\ ret = Zero

ParseCurrency ==
    /\ op' = "parseCurrency"
    /\ ret' = parseCurrency(value)
    /\ UNCHANGED <<headers, rowData, localImageMap, value, inputPrice, inputCost,
                   inputWeight, calcResult, elsewhere>>

ParseWeightToGrams ==
    /\ op' = "parseWeightToGrams"
    /\ ret' = parseWeightToGrams(value)
    /\ UNCHANGED <<headers, rowData, localImageMap, value, inputPrice, inputCost,
                   inputWeight, calcResult, elsewhere>>

NextNormalize == ParseCurrency \/ ParseWeightToGrams

SpecNormalize == InitNormalize /\ [][NextNormalize]_vars

\* The calculator tab: each onChange handler stores the typed text, and the
\* re-render that follows recomputes calcResult = calculateProfit().
InitCalculator ==
    /\ NoSheet
    /\ NoValue
    /\ InitCalc
    /\ Untouched
    /\ NoIndex
    /\ op = "none"
    /\ ret = Zero

SetInputPrice ==
    \E text \in PriceInputs :
        /\ inputPrice' = text
        /\ calcResult' = calculateProfit(text, inputCost, inputWeight)
        /\ UNCHANGED <<op, headers, rowData, localImageMap, value, inputCost,
                     inputWeight, ret, elsewhere>>

SetInputCost ==
    \E text \in CostInputs :
        /\ inputCost' = text
        /\ calcResult' = calculateProfit(inputPrice, text, inputWeight)
        /\ UNCHANGED <<op, headers, rowData, localImageMap, value, inputPrice,
                     inputWeight, ret, elsewhere>>

SetInputWeight ==
    \E text \in WeightInputs :
        /\ inputWeight' = text
        /\ calcResult' = calculateProfit(inputPrice, inputCost, text)
        /\ UNCHANGED <<op, headers, rowData, localImageMap, value, inputPrice,
                     inputCost, ret, elsewhere>>

NextCalculator == SetInputPrice \/ SetInputCost \/ SetInputWeight

SpecCalculator == InitCalculator /\ [][NextCalculator]_vars

-----------------------------------------------------------------------------
(* ProductModal: the calculator inputs when the product shown changes      *)

PriceKeywords ==
    { <<"1", uc.ping, uc.kong, uc.jia4>>, <<uc.jia4, uc.ge>>, <<uc.ling, uc.shou, uc.jia4>> }

CostKeywords == { <<uc.shang, uc.pin, uc.cheng2, uc.ben>>, <<uc.cheng2, uc.ben>> }

WeightKeywords == { <<uc.shang, uc.pin, uc.zhong, uc.liang>>, <<uc.zhong, uc.liang>> }

\* the predicate of a headers.find: h.includes(k) for a Chinese keyword or
\* h.toLowerCase().includes(word)
IsInputHeader(h, keywords, word) ==
    \/ \E k \in keywords : includes(h, k)
    \/ includes(toLowerCase(h), word)

priceK(hs) ==
    Find(hs, LAMBDA h : IsInputHeader(h, PriceKeywords, <<"p", "r", "i", "c", "e">>))

costK(hs) ==
    Find(hs, LAMBDA h : IsInputHeader(h, CostKeywords, <<"c", "o", "s", "t">>))

weightK(hs) ==
    Find(hs, LAMBDA h : IsInputHeader(h, WeightKeywords, <<"w", "e", "i", "g", "h", "t">>))

ModalSheet(hs, row) == [headers |-> hs, rowData |-> row]

\* the products the modal is opened on
ModalSheets ==
    {
      \* the three columns under their Chinese names
      ModalSheet(<<<<uc.jia4, uc.ge>>, <<uc.cheng2, uc.ben>>,
          <<uc.zhong, uc.liang>>>>,
      (<<uc.jia4, uc.ge>> :> StrVal(<<uc.yen, "1", "2", ".", "5">>)) @@
          (<<uc.cheng2, uc.ben>> :> StrVal(<<"3">>)) @@ (<<uc.zhong,
          uc.liang>> :> StrVal(<<"1", ".", "5", uc.gong, uc.jin>>))),
      \* a price column only
      ModalSheet(<<<<"P", "r", "i", "c", "e">>, <<"S", "K", "U">>>>,
      (<<"P", "r", "i", "c", "e">> :> StrVal(<<"$", "2", "0">>)) @@
          (<<"S", "K", "U">> :> StrVal(<<"X">>))),
      \* a weight column and a cost column without a number
      ModalSheet(<<<<"S", "K", "U">>, <<uc.shang, uc.pin, uc.zhong,
          uc.liang>>, <<"U", "n", "i", "t", " ", "C", "o", "s", "t">>>>,
      (<<"S", "K", "U">> :> StrVal(<<"X">>)) @@ (<<uc.shang, uc.pin,
          uc.zhong, uc.liang>> :> StrVal(<<"2", "0", "0", "g">>)) @@
          (<<"U", "n", "i", "t", " ", "C", "o", "s", "t">> :>
          StrVal(<<"a", "b", "c">>))),
      \* no calculator column
      ModalSheet(<<<<"S", "K", "U">>>>,
      (<<"S", "K", "U">> :> StrVal(<<"X">>))),
      \* two price columns, the later keyword first in the list
      ModalSheet(<<<<uc.ling, uc.shou, uc.jia4>>, <<"1", uc.ping,
          uc.kong, uc.jia4>>>>,
      (<<uc.ling, uc.shou, uc.jia4>> :> StrVal(<<"8">>)) @@ (<<"1",
          uc.ping, uc.kong, uc.jia4>> :> StrVal(<<"9">>))),
      \* a cost column whose cell is missing
      ModalSheet(<<<<uc.shang, uc.pin, uc.cheng2, uc.ben>>>>,
      (<<uc.shang, uc.pin, uc.cheng2, uc.ben>> :> UndefVal)) }

\* The modal is mounted without a product; the gallery then opens it on one
\* product after another, and the user types into the calculator.
InitModal ==
    /\ NoSheet
    /\ NoValue
    /\ InitCalc
    /\ Untouched
    /\ NoIndex
    /\ op = "none"
    /\ ret = Zero

\* as if the effect put every input back to '0' before it looked for columns
ShowProductResetting ==
    \E sheet \in ModalSheets :
        /\ <<sheet.headers, sheet.rowData>> # <<headers, rowData>>
        /\ headers' = sheet.headers
        /\ rowData' = sheet.rowData
        /\ inputPrice' =
               IF Truthy(priceK(sheet.headers))
               THEN NumberToString(parseCurrency(
                        Cell(sheet.rowData, priceK(sheet.headers).v)))
               ELSE <<"0">>
        /\ inputCost' =
               IF Truthy(costK(sheet.headers))
               THEN NumberToString(parseCurrency(
                        Cell(sheet.rowData, costK(sheet.headers).v)))
               ELSE <<"0">>
        /\ inputWeight' =
               IF Truthy(weightK(sheet.headers))
               THEN NumberToString(parseWeightToGrams(
                        Cell(sheet.rowData, weightK(sheet.headers).v)))
               ELSE <<"0">>
        /\ calcResult' = calculateProfit(inputPrice', inputCost', inputWeight')
        /\ op' = "showProduct"
        /\ UNCHANGED <<localImageMap, value, ret, elsewhere>>

\* the effect on [data, headers] with a product in data, and the render that
\* follows it
ShowProduct ==
    \E sheet \in ModalSheets :
        /\ <<sheet.headers, sheet.rowData>> # <<headers, rowData>>
        /\ headers' = sheet.headers
        /\ rowData' = sheet.rowData
        /\ inputPrice' =
               IF Truthy(priceK(sheet.headers))
               THEN NumberToString(parseCurrency(
                        Cell(sheet.rowData, priceK(sheet.headers).v)))
               ELSE inputPrice
        /\ inputCost' =
               IF Truthy(costK(sheet.headers))
               THEN NumberToString(parseCurrency(
                        Cell(sheet.rowData, costK(sheet.headers).v)))
               ELSE inputCost
        /\ inputWeight' =
               IF Truthy(weightK(sheet.headers))
               THEN NumberToString(parseWeightToGrams(
                        Cell(sheet.rowData, weightK(sheet.headers).v)))
               ELSE inputWeight
        /\ calcResult' = calculateProfit(inputPrice', inputCost', inputWeight')
        /\ op' = "showProduct"
        /\ UNCHANGED <<localImageMap, value, ret, elsewhere>>

NextModal == ShowProduct \/ SetInputPrice \/ SetInputCost \/ SetInputWeight

SpecModal == InitModal /\ [][NextModal]_vars

-----------------------------------------------------------------------------
(* ProductGallery: the folder upload that builds the local asset index     *)

\* newMap.set(key, ref): a key the Map holds keeps its place and takes the
\* new reference, a new key goes to the end
MapSet(entries, key, ref) ==
    IF MapHas(entries, key)
    THEN [i \in DOMAIN entries |->
              IF entries[i].key = key THEN [key |-> key, ref |-> ref] ELSE entries[i]]
    ELSE Append(entries, [key |-> key, ref |-> ref])

\* URL.createObjectURL(file): a reference no earlier call has returned
createObjectURL(made) == <<"b", "l", "o", "b", ":", Digits[made + 1]>>

\* Array.from(files).forEach(...), acc being the newMap, the count and the
\* number of object URLs made so far
RECURSIVE forEachFile(_, _)
forEachFile(acc0, fs0) ==
    Let(acc0, LAMBDA acc :
    Let(fs0, LAMBDA fs :
        IF fs = <<>> THEN acc
        ELSE Let(Head(fs), LAMBDA file :
             IF startsWith(file.type, <<"i", "m", "a", "g", "e", "/">>)
             THEN Let(createObjectURL(acc.made), LAMBDA url :
                  Let(StripExtension(file.name), LAMBDA keyWithoutExt :
                      forEachFile(
                          [ newMap |-> MapSet(MapSet(acc.newMap, keyWithoutExt, url),
                                              file.name, url),
                            count  |-> acc.count + 1,
                            made   |-> acc.made + 1 ],
                          Tail(fs))))
             ELSE forEachFile(acc, Tail(fs)))))

\* as if newMap started empty instead of as a copy of the index
folderUploadFresh(entries, made, fs) ==
    forEachFile([newMap |-> <<>>, count |-> 0, made |-> made], fs)

\* const newMap = new Map(localImageMap); let count = 0; ...forEach
folderUpload(entries, made, fs) ==
    forEachFile([newMap |-> entries, count |-> 0, made |-> made], fs)

\* the most files in one upload
MaxBatch == 2

\* the most object URLs made in one session
MaxUrls == 3

File(name, type) == [name |-> name, type |-> type]

\* the files a folder may hold
FilePool ==
    { File(<<"a", ".", "j", "p", "g">>, <<"i", "m", "a", "g", "e", "/", "j", "p", "e", "g">>),
      File(<<"a", ".", "p", "n", "g">>, <<"i", "m", "a", "g", "e", "/", "p", "n", "g">>),
      File(<<"b", ".", "g", "i", "f">>, <<"i", "m", "a", "g", "e", "/", "g", "i", "f">>),
      File(<<"a", ".", "t", "x", "t">>, <<"t", "e", "x", "t", "/", "p", "l", "a", "i", "n">>) }

Batches == UNION { [1..n -> FilePool] : n \in 0..MaxBatch }

ImageFiles(fs) ==
    {i \in DOMAIN fs : startsWith(fs[i].type, <<"i", "m", "a", "g", "e", "/">>)}

\* The gallery starts with an empty index and takes folder uploads.
InitGallery ==
    /\ NoSheet
    /\ NoValue
    /\ InitCalc
    /\ Untouched
    /\ localImageMap = Supplied(<<>>)
    /\ op = "none"
    /\ ret = None

\* handleFolderUpload; ret is the count that the alert shows
HandleFolderUpload ==
    \E batch \in Batches :
        /\ nextUrl + Cardinality(ImageFiles(batch)) <= MaxUrls
        /\ files' = batch
        /\ op' = "handleFolderUpload"
        /\ IF batch = <<>>
           THEN /\ ret' = None
                /\ UNCHANGED <<localImageMap, nextUrl>>
           ELSE /\ localImageMap' =
                       Supplied(folderUpload(localImageMap.entries, nextUrl, batch).newMap)
                /\ nextUrl' = folderUpload(localImageMap.entries, nextUrl, batch).made
                /\ ret' = Some(NumberToString(Whole(
                       folderUpload(localImageMap.entries, nextUrl, batch).count)))
        /\ UNCHANGED <<headers, rowData, value, inputPrice, inputCost, inputWeight,
                       calcResult, returned, upload>>

NextGallery == HandleFolderUpload

SpecGallery == InitGallery /\ [][NextGallery]_vars

-----------------------------------------------------------------------------
(* FileUpload and App: parsing a dropped or chosen file                    *)

\* the most processFile calls in the life of one FileUpload
MaxParses == 3

Workbook(ss) == [kind |-> "workbook", sheets |-> ss]

Sheet(name, rows) == [name |-> name, rows |-> rows]

\* what reading the file gives: a workbook, no content, or a read error
FileContents ==
    { Workbook(<<Sheet("Nike", 2), Sheet("Blank", 0)>>),
      Workbook(<<Sheet("Nike", 1), Sheet("Adidas", 3)>>),
      Workbook(<<Sheet("Blank", 0)>>),
      [kind |-> "empty", sheets |-> <<>>],
      [kind |-> "unreadable", sheets |-> <<>>] }

Resolved(result) == [resolved |-> TRUE, result |-> result]

Rejected == [resolved |-> FALSE, result |-> <<>>]

\* workbook.SheetNames.forEach: the sheets that have a row, by name
RECURSIVE SheetsWithData(_)
SheetsWithData(ss) ==
    IF ss = <<>> THEN <<>>
    ELSE (IF Head(ss).rows > 0 THEN <<Head(ss).name>> ELSE <<>>)
         \o SheetsWithData(Tail(ss))

\* how the promise of parseExcelFile settles
parseExcelFile(file) ==
    IF file.kind = "workbook" THEN Resolved(SheetsWithData(file.sheets)) ELSE Rejected

demoSheets == <<"Nike", "Adidas", "Puma", "New Balance">>

Await(file) == [file |-> file, at |-> "await", loaded |-> FALSE, erred |-> FALSE]

\* FileUpload is rendered while App has no sheets
Mounted == ~sheets.some

InitUpload ==
    /\ NoSheet
    /\ NoValue
    /\ InitCalc
    /\ Untouched
    /\ NoIndex
    /\ op = "none"
    /\ ret = None

UploadFrame ==
    UNCHANGED <<headers, rowData, localImageMap, value, inputPrice, inputCost,
                inputWeight, calcResult, ret, returned, gallery>>

\* processFile up to its await
ProcessFileStarts(file) ==
    /\ Len(parses) < MaxParses
    /\ isLoading' = TRUE
    /\ error' = "null"
    /\ parses' = Append(parses, Await(file))
    /\ UNCHANGED <<demoTimer, sheets>>

\* a file is dropped on the drop zone, which is there whether loading or not
HandleDrop ==
    /\ Mounted
    /\ \E file \in FileContents : ProcessFileStarts(file)
    /\ op' = "handleDrop"
    /\ UploadFrame

\* a file is chosen with the file input, which is rendered when not loading
HandleFileChange ==
    /\ Mounted
    /\ ~isLoading
    /\ \E file \in FileContents : ProcessFileStarts(file)
    /\ op' = "handleFileChange"
    /\ UploadFrame

\* the promise of a pending call settles and processFile runs to its end:
\* try, catch and finally
ProcessFileResumes ==
    \E i \in DOMAIN parses :
        /\ parses[i].at = "await"
        /\ LET r == parseExcelFile(parses[i].file)
               loads == r.resolved /\ r.result # <<>>
           IN  /\ parses' = [parses EXCEPT ![i] = [@ EXCEPT !.at = "done",
                                                           !.loaded = loads,
                                                           !.erred = ~loads]]
               /\ sheets' = IF loads THEN Some(r.result) ELSE sheets
               /\ error' = IF loads THEN error
                           ELSE IF r.resolved THEN "NoValidSheet" ELSE "ParseFailed"
        /\ isLoading' = FALSE
        /\ op' = "processFile"
        /\ UNCHANGED demoTimer
        /\ UploadFrame

\* the demo button, rendered when not loading; one timer at a time
LoadDemoData ==
    /\ Mounted
    /\ ~isLoading
    /\ ~demoTimer
    /\ isLoading' = TRUE
    /\ demoTimer' = TRUE
    /\ op' = "loadDemoData"
    /\ UNCHANGED <<error, parses, sheets>>
    /\ UploadFrame

\* the timer of loadDemoData fires
DemoTimeout ==
    /\ demoTimer
    /\ sheets' = Some(demoSheets)
    /\ isLoading' = FALSE
    /\ demoTimer' = FALSE
    /\ op' = "demoTimeout"
    /\ UNCHANGED <<error, parses>>
    /\ UploadFrame

NextUpload ==
    \/ HandleDrop
    \/ HandleFileChange
    \/ ProcessFileResumes
    \/ LoadDemoData
    \/ DemoTimeout

SpecUpload == InitUpload /\ [][NextUpload]_vars

-----------------------------------------------------------------------------
(* Properties of findImageKey                                              *)

\* the scores of the headers, in header order
Scores == Let(Candidates(headers, rowData), LAMBDA cs : [i \in DOMAIN cs |-> cs[i].score])

\* the headers whose cell yields a URL, by position
UrlPositions ==
    {i \in DOMAIN headers : Truthy(extractFirstImageUrl(Cell(rowData, headers[i])))}

\* C1: whenever the maximum total score is strictly greater than 10,
\* findImageKey returns the header with that maximum score, and of several
\* headers with the maximum score the earliest in header order.
C1_MaxScoreWins ==
    (op = "findImageKey" /\ headers # <<>>) =>
        Let(Scores, LAMBDA sc :
            Max(Range(sc)) > 10 =>
                ret = Some(headers[Min({i \in DOMAIN sc : sc[i] = Max(Range(sc))})]))

\* two headers tie at a maximum above 10 and the earlier one was returned
C1_Witness ==
    /\ op = "findImageKey"
    /\ Len(headers) >= 2
    /\ Let(Scores, LAMBDA sc :
           /\ Max(Range(sc)) > 10
           /\ \E i, j \in DOMAIN sc :
                  /\ i < j
                  /\ sc[i] = Max(Range(sc))
                  /\ sc[j] = Max(Range(sc))
                  /\ ret = Some(headers[i]))

\* C2: when no header scores above 10, findImageKey returns the first header
\* in the sheet's original header order whose cell yields a URL, whatever
\* its score, and none when no cell yields a URL (so none for no headers).
C2_FallbackInHeaderOrder ==
    (op = "findImageKey" /\ (headers = <<>> \/ Max(Range(Scores)) <= 10))
        => ret = IF UrlPositions = {} THEN None
                 ELSE Some(headers[Min(UrlPositions)])

-----------------------------------------------------------------------------
(* Properties of the normalizers                                           *)

\* no digit occurs in the text of the scalar: no number can be parsed from it
NoNumberIn(v) == Falsy(v) \/ \A c \in Range(String(v)) : c \notin DigitChars

\* C3: for every scalar input parseCurrency and parseWeightToGrams return a
\* finite number, and 0 when no number can be parsed from the input (such
\* as the string ".").
C3_NormalizersFinite ==
    op \in {"parseCurrency", "parseWeightToGrams"}
        => /\ isFinite(ret)
           /\ NoNumberIn(value) => ret = Zero

-----------------------------------------------------------------------------
(* Properties of the profit calculator                                     *)

\* the numbers the calculator reads from its three inputs
Price == FloatOrZero(inputPrice)

Cost == FloatOrZero(inputCost)

Weight == FloatOrZero(inputWeight)

Text(n) == NumberToString(Whole(n))

\* C4 as claimed: five bands, <= 500 -> 1.8, <= 1000 -> 2.2, <= 1500 -> 2.6,
\* <= 2000 -> 2.9, heavier -> 3.6.
C4_FiveBands ==
    calcResult.shippingFee =
        IF Le(Weight, Whole(500)) THEN Num(18, 10)
        ELSE IF Le(Weight, Whole(1000)) THEN Num(22, 10)
        ELSE IF Le(Weight, Whole(1500)) THEN Num(26, 10)
        ELSE IF Le(Weight, Whole(2000)) THEN Num(29, 10)
        ELSE Num(36, 10)

\* C4 as amended: the shipping fee is a step function of the weight in grams
\* with four non-overlapping bands: weight <= 0 gives 0, 0 < weight < 500
\* gives 1.8, 500 <= weight <= 1000 gives 2.2 and anything heavier gives 2.6.
C4_ThreeBands ==
    /\ Le(Weight, Zero) => calcResult.shippingFee = Zero
    /\ (Gt(Weight, Zero) /\ Lt(Weight, Whole(500)))
           => calcResult.shippingFee = Num(18, 10)
    /\ (Le(Whole(500), Weight) /\ Le(Weight, Whole(1000)))
           => calcResult.shippingFee = Num(22, 10)
    /\ Gt(Weight, Whole(1000)) => calcResult.shippingFee = Num(26, 10)

\* a weight of exactly 500 g was typed and falls into the 2.2 band
C4_Witness ==
    /\ inputWeight = Text(500)
    /\ calcResult.shippingFee = Num(22, 10)

\* C5 as claimed: platformFee and taxFee are both 5% of the price.
C5_BothFivePercent ==
    /\ calcResult.platformFee = Mul(Price, Num(5, 100))
    /\ calcResult.taxFee = Mul(Price, Num(5, 100))

\* C5 as amended: platformFee = price * 5 / 100 and taxFee = price * 8 / 100
\* for every price (the rates are fixed at 5% and 8%).
C5_FiveAndEightPercent ==
    /\ calcResult.platformFee = Div(Mul(Price, Whole(5)), Whole(100))
    /\ calcResult.taxFee = Div(Mul(Price, Whole(8)), Whole(100))

\* a price of 100 was typed: platform fee 5, tax fee 8
C5_Witness ==
    /\ inputPrice = Text(100)
    /\ calcResult.platformFee = Whole(5)
    /\ calcResult.taxFee = Whole(8)

\* C6: comprehensive cost = cost + boxCost + opFee + shippingFee +
\* platformFee + otherCost + taxFee and profit = price - comprehensive cost,
\* with boxCost 0.45, opFee 0.7 and otherCost 0 (the calculator has no
\* other-cost input).
C6_CostAndProfit ==
    /\ calcResult.totalCost =
           Add(Add(Add(Add(Add(Add(Cost, Num(45, 100)), Num(7, 10)),
                           calcResult.shippingFee),
                       calcResult.platformFee),
                   Zero),
               calcResult.taxFee)
    /\ calcResult.grossProfit = Sub(Price, calcResult.totalCost)

\* price 100, cost 20 and weight 300 were typed: cost 35.95, profit 64.05
C6_Witness ==
    /\ inputPrice = Text(100)
    /\ inputCost = Text(20)
    /\ inputWeight = Text(300)
    /\ calcResult.totalCost = Num(3595, 100)
    /\ calcResult.grossProfit = Num(6405, 100)

\* C7 as claimed: margin post-return = margin pre-return * (1 - 10/100).
C7_NetIsNineTenthsOfGross ==
    calcResult.netMargin =
        Mul(calcResult.grossMargin, Sub(Whole(1), Div(Whole(10), Whole(100))))

\* the costs a returned order still incurs
SunkCosts == Add(Add(calcResult.shippingFee, Num(45, 100)), Num(7, 10))

\* C7 as amended: for price > 0 the margin post-return (a percentage) is
\* netProfit / (0.9 * price) * 100 with netProfit = 0.9 * (price - cost -
\* platformFee - taxFee) - (shippingFee + boxFee + opFee), which is the margin
\* pre-return minus 100 * (shippingFee + boxFee + opFee) / (9 * price); for
\* price <= 0 it is 0.
C7_NetMargin ==
    /\ calcResult.netProfit =
           Sub(Mul(Num(9, 10),
                   Sub(Sub(Sub(Price, Cost), calcResult.platformFee),
                       calcResult.taxFee)),
               SunkCosts)
    /\ Gt(Price, Zero) =>
           /\ calcResult.netMargin =
                  Mul(Div(calcResult.netProfit, Mul(Num(9, 10), Price)), Whole(100))
           /\ calcResult.netMargin =
                  Sub(calcResult.grossMargin,
                      Div(Mul(Whole(100), SunkCosts), Mul(Whole(9), Price)))
    /\ Le(Price, Zero) => calcResult.netMargin = Zero

\* price 100, cost 20, weight 300: margins 64.05 % before and 1147/18 %
\* (63.72 %) after returns, not 0.9 * 64.05 %
C7_Witness ==
    /\ inputPrice = Text(100)
    /\ inputCost = Text(20)
    /\ inputWeight = Text(300)
    /\ calcResult.grossMargin = Num(6405, 100)
    /\ calcResult.netMargin = Num(1147, 18)

AllFinite(r) == \A f \in DOMAIN r : isFinite(r[f])

\* C8 as claimed: margin pre-return = profit / price (a fraction) when the
\* price is not 0 and 0 when it is 0, and every result is a finite number.
C8_MarginIsFraction ==
    /\ Price # Zero => calcResult.grossMargin = Div(calcResult.grossProfit, Price)
    /\ Price = Zero => calcResult.grossMargin = Zero
    /\ AllFinite(calcResult)

\* C8 as amended: margin pre-return = profit / price * 100 (a percentage)
\* when price > 0 and 0 when price <= 0; no division by zero is performed:
\* every result is a finite number.
C8_MarginIsGuardedPercentage ==
    /\ Gt(Price, Zero) =>
           calcResult.grossMargin =
               Div(Mul(calcResult.grossProfit, Whole(100)), Price)
    /\ Le(Price, Zero) => calcResult.grossMargin = Zero
    /\ AllFinite(calcResult)

\* an empty price was typed over a non-zero one: the price reads as 0, the
\* profit is negative and the margin is 0
C8_Witness ==
    /\ inputPrice = <<>>
    /\ Lt(calcResult.grossProfit, Zero)
    /\ calcResult.grossMargin = Zero
    /\ calcResult.netMargin = Zero

IsExample == inputPrice = Text(100) /\ inputCost = Text(20) /\ inputWeight = Text(300)

\* C9 as claimed: price 100, cost 20, weight 300 give shipping 1.8, platform
\* fee 5, tax fee 5, comprehensive cost 33.95, profit 66.05, margin pre-return
\* 0.6605 and margin post-return 0.59445.
C9_ExampleAsClaimed ==
    IsExample =>
        /\ calcResult.shippingFee = Num(18, 10)
        /\ calcResult.platformFee = Whole(5)
        /\ calcResult.taxFee = Whole(5)
        /\ calcResult.totalCost = Num(3395, 100)
        /\ calcResult.grossProfit = Num(6605, 100)
        /\ calcResult.grossMargin = Num(6605, 10000)
        /\ calcResult.netMargin = Num(59445, 100000)

\* C9 as amended: price 100, cost 20, weight 300 give shipping 1.8, platform
\* fee 5, tax fee 8, comprehensive cost 35.95, profit 64.05, margin pre-return
\* 64.05 (percent) and margin post-return 57.35 / 90 * 100 = 63.72 (percent).
C9_Example ==
    IsExample =>
        /\ calcResult.shippingFee = Num(18, 10)
        /\ calcResult.platformFee = Whole(5)
        /\ calcResult.taxFee = Whole(8)
        /\ calcResult.totalCost = Num(3595, 100)
        /\ calcResult.grossProfit = Num(6405, 100)
        /\ calcResult.grossMargin = Num(6405, 100)
        /\ calcResult.netProfit = Num(5735, 100)
        /\ calcResult.netMargin = Div(Mul(Num(5735, 100), Whole(100)), Whole(90))

\* the example was typed in and its result computed
C9_Witness == IsExample /\ calcResult.totalCost = Num(3595, 100)

\* C10 as claimed: the result holds an investment efficiency, 1 / margin
\* post-return when that margin is > 0 and 0 otherwise.
C10_HasInvestmentEfficiency ==
    /\ "investmentEfficiency" \in DOMAIN calcResult
    /\ calcResult.investmentEfficiency =
           IF Gt(calcResult.netMargin, Zero)
           THEN Div(Whole(1), calcResult.netMargin) ELSE Zero

\* C10 as amended: the result holds no investment efficiency: its fields are
\* exactly shippingFee, platformFee, taxFee, opFee, boxFee, totalCost,
\* grossProfit, grossMargin, roi, netProfit and netMargin, so the reciprocal
\* of the margin post-return is computed for no margin, positive or not.
C10_NoInvestmentEfficiency ==
    DOMAIN calcResult =
        { "shippingFee", "platformFee", "taxFee", "opFee", "boxFee", "totalCost",
          "grossProfit", "grossMargin", "roi", "netProfit", "netMargin" }

\* a result with a positive margin post-return and no efficiency field
C10_Witness ==
    /\ inputPrice = Text(100)
    /\ Gt(calcResult.netMargin, Zero)
    /\ "investmentEfficiency" \notin DOMAIN calcResult

-----------------------------------------------------------------------------
(* Properties of parseWeightToGrams, parseCurrency                         *)

\* the lowercased, trimmed text of the string handed to a normalizer
WeightText == trim(toLowerCase(value.s))

Contains(sub) == includes(WeightText, sub)

\* parseWeightToGrams ran on a non-empty string with a numeric token
WeightOfText ==
    /\ op = "parseWeightToGrams"
    /\ value.t = "string"
    /\ value.s # <<>>
    /\ FirstNumericRun(WeightText).some

\* the number read from the first numeric token
WeightNumber == parseFloat(FirstNumericRun(WeightText).v)

Grams(text) == op = "parseWeightToGrams" /\ value = StrVal(text)

\* C12: the unit is resolved in a fixed priority: a string containing "kg"
\* or "gong jin" gives number * 1000 (so "gong jin" is never treated as
\* "jin"); otherwise a string containing "jin" gives number * 500; a string
\* containing "g" but neither gives the number unchanged; "0.5kg", "1 jin"
\* and "500g" give 500 and "" gives 0.
C12_UnitPriority ==
    /\ (WeightOfText /\ (Contains(<<"k", "g">>) \/ Contains(<<uc.gong, uc.jin>>)))
           => ret = Mul(WeightNumber, Whole(1000))
    /\ (WeightOfText /\ ~Contains(<<"k", "g">>) /\ ~Contains(<<uc.gong, uc.jin>>)
                     /\ Contains(<<uc.jin>>))
           => ret = Mul(WeightNumber, Whole(500))
    /\ (WeightOfText /\ ~Contains(<<"k", "g">>) /\ ~Contains(<<uc.jin>>)
                     /\ Contains(<<"g">>))
           => ret = WeightNumber
    /\ Grams(<<"0", ".", "5", "k", "g">>) => ret = Whole(500)
    /\ Grams(<<"1", uc.jin>>) => ret = Whole(500)
    /\ Grams(<<"5", "0", "0", "g">>) => ret = Whole(500)
    /\ Grams(<<"1", uc.gong, uc.jin>>) => ret = Whole(1000)
    /\ Grams(<<>>) => ret = Zero

\* "1.5 gong jin" was parsed: 1500 grams, not the 750 of "jin"
C12_Witness ==
    /\ Grams(<<"1", ".", "5", uc.gong, uc.jin>>)
    /\ ret = Whole(1500)

Currency(text) == op = "parseCurrency" /\ value = StrVal(text)

\* the characters of the stringified input that are digits or the point
Remainder == SelectSeq(String(value), LAMBDA c : c \in DigitChars \cup {"."})

\* C14: parseCurrency stringifies its input, removes every character other
\* than digits and the decimal point, parses the remainder as a number and
\* returns 0 for empty input or an unparseable remainder: a numeral k/2
\* behind a currency sign or a space and before a unit gives k/2,
\* "Y1,200.50" gives 1200.5, "" gives 0 and "abc" gives 0.
C14_ParseCurrency ==
    /\ op = "parseCurrency" =>
           /\ ret = IF isNaN(parseFloat(Remainder)) THEN Zero
                    ELSE parseFloat(Remainder)
           /\ isFinite(ret)
    /\ \A k \in 0..MaxHalves :
           (/\ op = "parseCurrency"
            /\ value.t = "string"
            /\ Remainder = NumberToString(Num(k, 2))) => ret = Num(k, 2)
    /\ Currency(<<uc.yen, "1", ",", "2", "0", "0", ".", "5", "0">>)
           => ret = Num(2401, 2)
    /\ Currency(<<>>) => ret = Zero
    /\ Currency(<<"a", "b", "c">>) => ret = Zero

\* "Y1,200.50" was parsed: 1200.5
C14_Witness ==
    /\ Currency(<<uc.yen, "1", ",", "2", "0", "0", ".", "5", "0">>)
    /\ ret = Num(2401, 2)

-----------------------------------------------------------------------------
(* Properties of findBrandKey, findTitleKey                                *)

\* the positions of the headers that equal a brand keyword once lowercased
\* and trimmed, and of those whose lowercase form contains one
ExactBrand ==
    {i \in DOMAIN headers :
        \E c \in Range(BrandCandidates) : trim(toLowerCase(headers[i])) = c}

PartialBrand ==
    {i \in DOMAIN headers :
        \E c \in Range(BrandCandidates) : includes(toLowerCase(headers[i]), c)}

\* C15: findBrandKey returns the first header whose trimmed lowercase form
\* equals a candidate keyword; only when there is none, the first header
\* whose lowercase form contains a candidate keyword; none only when neither
\* pass matches, so a header is returned whenever some header's lowercase
\* form contains "brand" or the two-character word for brand.
C15_ExactBeforePartial ==
    op = "findBrandKey" =>
        /\ ExactBrand # {} => ret = Some(headers[Min(ExactBrand)])
        /\ (ExactBrand = {} /\ PartialBrand # {})
               => ret = Some(headers[Min(PartialBrand)])
        /\ (ExactBrand = {} /\ PartialBrand = {}) => ret = None
        /\ (\E i \in DOMAIN headers :
               \/ includes(toLowerCase(headers[i]), <<"b", "r", "a", "n", "d">>)
               \/ includes(toLowerCase(headers[i]), <<uc.pin, uc.pai>>))
               => (ret.some /\ ret.v \in Range(headers))

\* "brand name" stands before "Brand ": the later, exact header is returned
C15_Witness ==
    /\ op = "findBrandKey"
    /\ headers = << <<"b", "r", "a", "n", "d", " ", "n", "a", "m", "e">>,
                    <<"B", "r", "a", "n", "d", " ">> >>
    /\ ret = Some(<<"B", "r", "a", "n", "d", " ">>)

\* the positions of the headers whose lowercase form contains a title keyword
TitleMatches ==
    {i \in DOMAIN headers :
        \E c \in Range(TitleCandidates) : includes(toLowerCase(headers[i]), c)}

-----------------------------------------------------------------------------
(* Properties of extractFirstImageUrl                                      *)

\* the tokens of the trimmed, stringified cell value
Tokens == split(trim(String(value)), Separators)

\* a token that is an http/https URL or a data:image URI
UrlToken(t) ==
    \E pre \in { <<"h", "t", "t", "p", ":", "/", "/">>,
                 <<"h", "t", "t", "p", "s", ":", "/", "/">>,
                 <<"d", "a", "t", "a", ":", "i", "m", "a", "g", "e", "/">> } :
        Len(t) > Len(pre) /\ SubSeq(t, 1, Len(pre)) = pre

\* a token that ends with a recognized image extension, in any case
ExtToken(t) ==
    \E e \in { <<"j", "p", "g">>, <<"j", "p", "e", "g">>, <<"p", "n", "g">>,
               <<"g", "i", "f">>, <<"w", "e", "b", "p">>, <<"b", "m", "p">>,
               <<"s", "v", "g">> } :
        /\ Len(t) > Len(e)
        /\ toLowerCase(SubSeq(t, Len(t) - Len(e), Len(t))) = <<".">> \o e

Qualifying == {i \in DOMAIN Tokens : UrlToken(Tokens[i]) \/ ExtToken(Tokens[i])}

Extracted(text) == op = "extractFirstImageUrl" /\ value = StrVal(text)

\* C17: extractFirstImageUrl trims its input, returns none for empty input,
\* splits on runs of comma, semicolon, pipe and whitespace, and returns the
\* first token in order that is an http/https URL, a data:image URI, or ends
\* with a recognized image extension in any case (a URL or data URI is
\* returned without its quote characters); none when no token qualifies.
\* "desc text, http://x.com/b.jpg" gives "http://x.com/b.jpg" and
\* "no links here" gives none.
C17_FirstQualifyingToken ==
    /\ op = "extractFirstImageUrl" =>
           /\ (Falsy(value) \/ trim(String(value)) = <<>>) => ret = None
           /\ (~Falsy(value) /\ Qualifying = {}) => ret = None
           /\ (~Falsy(value) /\ Qualifying # {}) =>
                  Let(Tokens[Min(Qualifying)], LAMBDA t :
                      ret = Some(IF UrlToken(t) THEN StripQuotes(t) ELSE t))
    /\ Extracted(<<"d", "e", "s", "c", " ", "t", "e", "x", "t", ",", " ", "h",
                   "t", "t", "p", ":", "/", "/", "x", ".", "c", "o", "m", "/",
                   "b", ".", "j", "p", "g">>)
           => ret = Some(<<"h", "t", "t", "p", ":", "/", "/", "x", ".", "c", "o",
                           "m", "/", "b", ".", "j", "p", "g">>)
    /\ Extracted(<<"n", "o", " ", "l", "i", "n", "k", "s", " ", "h", "e", "r", "e">>)
           => ret = None

\* "photo.PNG;http://x.com/b.jpg" was scanned: the file name, the first
\* qualifying token, was returned and not the URL after it
C17_Witness ==
    /\ Extracted(<<"p", "h", "o", "t", "o", ".", "P", "N", "G", ";", "h", "t",
                   "t", "p", ":", "/", "/", "x", ".", "c", "o", "m", "/", "b",
                   ".", "j", "p", "g">>)
    /\ ret = Some(<<"p", "h", "o", "t", "o", ".", "P", "N", "G">>)

-----------------------------------------------------------------------------
(* Properties of findLocalImageMatch                                       *)

Values == ObjectValues(headers, rowData)

Entries == localImageMap.entries

\* the index entries that answer each of the three checks for a value
CaseInsensitive(v) ==
    {i \in DOMAIN Entries :
        toLowerCase(Entries[i].key) = toLowerCase(StripExtension(trim(String(v))))}

ExactRaw(v) == {i \in DOMAIN Entries : Entries[i].key = trim(String(v))}

ExactStripped(v) ==
    {i \in DOMAIN Entries : Entries[i].key = StripExtension(trim(String(v)))}

\* the checks in their order: the entries of the first check that succeeds
FirstCheck(v) ==
    IF CaseInsensitive(v) # {} THEN CaseInsensitive(v)
    ELSE IF ExactRaw(v) # {} THEN ExactRaw(v)
    ELSE ExactStripped(v)

\* the positions of the non-empty values some check succeeds for
Matching == {p \in DOMAIN Values : ~Falsy(Values[p]) /\ FirstCheck(Values[p]) # {}}

\* C18: findLocalImageMatch scans the row's values in record key order and
\* checks each non-empty value against (1) the index keys equal to its
\* extension-stripped form in any case, (2) its raw trimmed form as an exact
\* key, (3) its extension-stripped form as an exact key; it returns the
\* reference of the first check that succeeds for the earliest value that
\* has one, and none if no value matches.
C18_FirstMatchInRowOrder ==
    op = "findLocalImageMatch" =>
        /\ Matching = {} => ret = None
        /\ Matching # {} =>
               \E i \in FirstCheck(Values[Min(Matching)]) : ret = Some(Entries[i].ref)

\* the first cell " a123 " matches nothing in an index that holds the key
\* "A123.jpg" only; the second cell "A123.jpg" fails check (1) and is found
\* by check (2)
C18_Witness ==
    /\ op = "findLocalImageMatch"
    /\ Len(headers) = 2
    /\ Values = << StrVal(<<" ", "a", "1", "2", "3", " ">>),
                   StrVal(<<"A", "1", "2", "3", ".", "j", "p", "g">>) >>
    /\ Entries = << Entry(<<"A", "1", "2", "3", ".", "j", "p", "g">>) >>
    /\ CaseInsensitive(Values[2]) = {}
    /\ ret = Some(Entry(<<"A", "1", "2", "3", ".", "j", "p", "g">>).ref)

\* C19: an empty or absent local asset index yields none: findLocalImageMatch
\* returns none for an empty index whatever the row contains, and a
\* ProductCard that is given no index, or an empty one, has no local image.
C19_NoIndexNoImage ==
    /\ (op = "findLocalImageMatch" /\ Entries = <<>>) => ret = None
    /\ (op = "ProductCard" /\ ~localImageMap.given) => ret = None
    /\ (op = "ProductCard" /\ localImageMap.given /\ Entries = <<>>) => ret = None

\* a row with a file name in it was matched against an empty index
C19_Witness ==
    /\ op = "findLocalImageMatch"
    /\ localImageMap = Supplied(<<>>)
    /\ \E p \in DOMAIN Values :
           Values[p] = StrVal(<<"A", "1", "2", "3", ".", "j", "p", "g">>)
    /\ ret = None

-----------------------------------------------------------------------------
(* The worked example of findImageKey                                      *)

\* headers ["colour", "picture link"], the colour cell "red" and the picture
\* link cell "http://x.com/a.jpg"
IsColourAndLink ==
    /\ headers = << <<uc.yan, uc.se>>, <<uc.tu, uc.pian, uc.lian, uc.jie>> >>
    /\ rowData[<<uc.yan, uc.se>>] = StrVal(<<uc.hong, uc.se>>)
    /\ rowData[<<uc.tu, uc.pian, uc.lian, uc.jie>>] =
           StrVal(<<"h", "t", "t", "p", ":", "/", "/", "x", ".", "c", "o", "m", "/",
                    "a", ".", "j", "p", "g">>)

\* C20 as claimed: for this sheet findImageKey returns "picture link", whose
\* score is at least 70, while the score of "colour" is 0.
C20_ColourScoresZero ==
    (IsColourAndLink /\ op = "findImageKey") =>
        /\ ret = Some(<<uc.tu, uc.pian, uc.lian, uc.jie>>)
        /\ Scores[2] >= 70
        /\ Scores[1] = 0

\* C20 as amended: for this sheet findImageKey returns "picture link", whose
\* score is 105 (55 for the header, 20 for the URL, 30 for the extension),
\* at least 70, while the score of "colour" is -10: its two-character cell
\* without a dot is penalised as extremely short text.
C20_ColourScoresMinusTen ==
    (IsColourAndLink /\ op = "findImageKey") =>
        /\ ret = Some(<<uc.tu, uc.pian, uc.lian, uc.jie>>)
        /\ Scores[2] >= 70
        /\ Scores[2] = 105
        /\ Scores[1] = -10

\* findImageKey ran on the example sheet and returned "picture link"
C20_Witness ==
    /\ IsColourAndLink
    /\ op = "findImageKey"
    /\ ret = Some(<<uc.tu, uc.pian, uc.lian, uc.jie>>)
    /\ Scores = <<-10, 105>>

-----------------------------------------------------------------------------
(* Properties of the engine as a whole                                     *)

-----------------------------------------------------------------------------
(* Properties of findImageKey's scoring                                    *)

\* the trimmed text of the cell under the i-th header and the URL in it
CellText(i) ==
    Let(Cell(rowData, headers[i]), LAMBDA rawVal :
        trim(IF Falsy(rawVal) THEN <<>> ELSE String(rawVal)))

UrlIn(i) == extractFirstImageUrl(StrVal(CellText(i)))

PathBonus(i) == IF \E k \in PathKeywords : includes(CellText(i), k) THEN 10 ELSE 0

\* what the URL of the i-th cell contributed to its header's score
UrlPart(i) ==
    Scores[i] - HeaderScore(toLowerCase(headers[i])) - PathBonus(i)
              - NegativeScore(CellText(i), UrlIn(i))

\* the extracted URL ends with a recognized extension, a query apart
UrlHasExtension(i) ==
    Let(toLowerCase(TakeWhileNotIn(UrlIn(i).v, {"?"})), LAMBDA l :
        \E e \in ScoreExtensions : endsWith(l, <<".">> \o e))

UrlIsBase64(i) ==
    includes(UrlIn(i).v, <<"d", "a", "t", "a", ":", "i", "m", "a", "g", "e">>)

\* C22: a cell that yields a URL adds 20, plus 30 if the URL has a
\* recognized image extension or 40 if it is a base64 image payload; the two
\* bonuses are mutually exclusive: no header receives both.
C22_BonusesExclusive ==
    op = "findImageKey" =>
        \A i \in DOMAIN headers :
            /\ ~Truthy(UrlIn(i)) => UrlPart(i) = 0
            /\ Truthy(UrlIn(i)) =>
                   \/ UrlPart(i) = 20 /\ ~UrlHasExtension(i) /\ ~UrlIsBase64(i)
                   \/ UrlPart(i) = 50 /\ UrlHasExtension(i)
                   \/ UrlPart(i) = 60 /\ UrlIsBase64(i)

\* what the i-th header's own text contributed to its score
HeaderPart(i) ==
    Scores[i] - ContentScore(CellText(i), UrlIn(i))
              - NegativeScore(CellText(i), UrlIn(i))

HasStrong(i) == \E k \in StrongKeywords : includes(toLowerCase(headers[i]), k)

HasCompound(i) == \E k \in CompoundKeywords : includes(toLowerCase(headers[i]), k)

HasWeak(i) == \E k \in WeakKeywords : includes(toLowerCase(headers[i]), k)

\* C23: a header containing a strong image keyword adds 20, one containing
\* a compound keyword adds 30 (on top of the 20 when both match), one
\* containing a weak link keyword adds 5; the three signals are evaluated
\* independently and summed.
C23_HeaderSignalsSummed ==
    op = "findImageKey" =>
        \A i \in DOMAIN headers :
            HeaderPart(i) = (IF HasStrong(i) THEN 20 ELSE 0)
                          + (IF HasCompound(i) THEN 30 ELSE 0)
                          + (IF HasWeak(i) THEN 5 ELSE 0)

\* a scored header with all three signals
C23_Witness ==
    /\ op = "findImageKey"
    /\ \E i \in DOMAIN headers :
           HasStrong(i) /\ HasCompound(i) /\ HasWeak(i) /\ HeaderPart(i) = 55

\* what the penalties took from the i-th header's score
PenaltyPart(i) ==
    Scores[i] - HeaderScore(toLowerCase(headers[i]))
              - ContentScore(CellText(i), UrlIn(i))

LooksLikeProse(i) ==
    /\ \E j \in DOMAIN CellText(i) : CellText(i)[j] \in {"\n", "\r"}
    /\ ~Truthy(UrlIn(i))

LooksLikePrice(i) == CellText(i) # <<>> /\ CellText(i)[1] \in CurrencySymbols

LooksLikeFlag(i) ==
    Len(CellText(i)) < 5 /\ \A j \in DOMAIN CellText(i) : CellText(i)[j] # "."

\* C24: a cell value that contains a newline and yields no URL subtracts
\* 100, one that starts with a currency symbol subtracts 50, one shorter than
\* 5 characters without a dot (an empty cell included) subtracts 10; each
\* penalty applies independently of the others.
C24_PenaltiesIndependent ==
    op = "findImageKey" =>
        \A i \in DOMAIN headers :
            PenaltyPart(i) = (IF LooksLikeProse(i) THEN -100 ELSE 0)
                           + (IF LooksLikePrice(i) THEN -50 ELSE 0)
                           + (IF LooksLikeFlag(i) THEN -10 ELSE 0)

\* a scored cell that draws all three penalties at once
C24_Witness ==
    /\ op = "findImageKey"
    /\ \E i \in DOMAIN headers :
           /\ LooksLikeProse(i) /\ LooksLikePrice(i) /\ LooksLikeFlag(i)
           /\ PenaltyPart(i) = -160

-----------------------------------------------------------------------------
(* Properties of extractFirstImageUrl's quote handling                     *)

QuoteChars == {"'", "\""}

\* t without the quote characters at its two ends
RECURSIVE Unquoted(_)
Unquoted(t0) ==
    Let(t0, LAMBDA t :
        IF t # <<>> /\ Head(t) \in QuoteChars THEN Unquoted(Tail(t))
        ELSE IF t # <<>> /\ t[Len(t)] \in QuoteChars
        THEN Unquoted(SubSeq(t, 1, Len(t) - 1))
        ELSE t)

\* C25: when extractFirstImageUrl returns a token that qualified as an
\* http/https URL or a data:image URI, the returned string is that token with
\* its surrounding single/double quote characters stripped (no quote
\* character remains at either end of the result).
C25_SurroundingQuotesStripped ==
    (op = "extractFirstImageUrl" /\ ~Falsy(value) /\ Qualifying # {}) =>
        Let(Tokens[Min(Qualifying)], LAMBDA t :
            UrlToken(t) =>
                /\ ret = Some(Unquoted(t))
                /\ ret.v # <<>> =>
                       ret.v[1] \notin QuoteChars /\ ret.v[Len(ret.v)] \notin QuoteChars)

-----------------------------------------------------------------------------
(* Properties of the folder upload                                         *)

Keys(index) == { index.entries[i].key : i \in DOMAIN index.entries }

\* the two names under which an image file of the batch is filed
NamesOf(file) == {file.name, StripExtension(file.name)}

ImageNames(fs) == UNION { NamesOf(fs[i]) : i \in ImageFiles(fs) }

\* C27: the index only grows by additive merges: every key that was in the
\* index before an upload is still in it after the upload, and a batch
\* contributes keys only for its image files.
C27_AdditiveMerge ==
    [][op' = "handleFolderUpload" =>
           /\ Keys(localImageMap) \subseteq Keys(localImageMap')
           /\ (Keys(localImageMap') \ Keys(localImageMap)) \subseteq ImageNames(files')
           /\ ImageNames(files') \subseteq Keys(localImageMap')]_vars

\* an upload of an image file and another file into an index that held other
\* keys, which it still holds
C27_Witness ==
    /\ op = "handleFolderUpload"
    /\ ImageFiles(files) # {}
    /\ \E i \in DOMAIN files : i \notin ImageFiles(files)
                                 /\ files[i].name \notin Keys(localImageMap)
    /\ Keys(localImageMap) \ ImageNames(files) # {}

\* C28: after a folder upload, for every image file in the batch the index
\* maps the full file name and the name without its extension to the same
\* reference, also when several files of the batch share a name stem.
C28_AliasesAgree ==
    op = "handleFolderUpload" =>
        \A i \in ImageFiles(files) :
            /\ NamesOf(files[i]) \subseteq Keys(localImageMap)
            /\ MapGet(localImageMap.entries, files[i].name)
                   = MapGet(localImageMap.entries, StripExtension(files[i].name))

-----------------------------------------------------------------------------
(* Properties of the modal's calculator inputs                             *)

\* the positions of the headers that name a price, a cost, a weight
PriceColumns(hs) ==
    {i \in DOMAIN hs :
        \/ \E k \in PriceKeywords : includes(hs[i], k)
        \/ includes(toLowerCase(hs[i]), <<"p", "r", "i", "c", "e">>)}

CostColumns(hs) ==
    {i \in DOMAIN hs :
        \/ \E k \in CostKeywords : includes(hs[i], k)
        \/ includes(toLowerCase(hs[i]), <<"c", "o", "s", "t">>)}

WeightColumns(hs) ==
    {i \in DOMAIN hs :
        \/ \E k \in WeightKeywords : includes(hs[i], k)
        \/ includes(toLowerCase(hs[i]), <<"w", "e", "i", "g", "h", "t">>)}

FirstCell(hs, row, columns) == Cell(row, hs[Min(columns)])

-----------------------------------------------------------------------------
(* Properties of FileUpload                                                *)

Pending == {i \in DOMAIN parses : parses[i].at = "await"}

\* C30: isLoading stays true for as long as any file parse started by
\* processFile is still pending, also when a second file is dropped while
\* the first parse is in flight; and each processFile call ends by either
\* calling onDataLoaded with a non-empty sheet list or setting an error,
\* never both.
C30_LoadingWhilePending ==
    /\ (Mounted /\ Pending # {}) => isLoading
    /\ \A i \in DOMAIN parses \ Pending :
           /\ parses[i].loaded # parses[i].erred
           /\ parses[i].loaded =>
                  /\ parseExcelFile(parses[i].file).resolved
                  /\ parseExcelFile(parses[i].file).result # <<>>

=============================================================================
